---------------------------- MODULE Spec2Model ----------------------------
(***************************************************************************)
(* A model of the structured-answer rendering engine of src/mayank.py      *)
(* (class AnswerGenerator): the math cleaner, the answer normalizer, the   *)
(* HTML block renderers, the table renderers, the SVG diagram renderer and *)
(* the plain-text exporter.                                                *)
(*                                                                         *)
(* Strings are sequences of one-character strings.  Python's regular       *)
(* expressions are modelled by a backtracking matcher (Match) that yields  *)
(* the matches of a pattern at a position in Python's priority order, so   *)
(* that re.search, re.match and re.sub are computed as Python computes     *)
(* them.                                                                   *)
(***************************************************************************)
EXTENDS Integers, Sequences, FiniteSets, TLC

(***************************************************************************)
(* Bounds of the model.                                                    *)
(***************************************************************************)
MaxExprLen == 3

(***************************************************************************)
(* Call(name, args) is the call of a function of the engine by its name,   *)
(* on the tuple of its arguments, as the methods of AnswerGenerator call   *)
(* one another through self.  Its definition follows the functions.        *)
(***************************************************************************)
RECURSIVE Call(_, _)

(***************************************************************************)
(* Characters.                                                             *)
(***************************************************************************)
Lower == {"a", "b", "c", "d", "e", "f", "g", "h", "i", "j", "k", "l", "m",
          "n", "o", "p", "q", "r", "s", "t", "u", "v", "w", "x", "y", "z"}
Upper == {"A", "B", "C", "D", "E", "F", "G", "H", "I", "J", "K", "L", "M",
          "N", "O", "P", "Q", "R", "S", "T", "U", "V", "W", "X", "Y", "Z"}
Digit == {"0", "1", "2", "3", "4", "5", "6", "7", "8", "9"}
Alpha == Lower \cup Upper
Alnum == Alpha \cup Digit
Space == {" ", "\t", "\n", "\r", "\f"}

(***************************************************************************)
(* Regular expressions: syntax trees.                                      *)
(***************************************************************************)
Node(o, set, negated, group, children) ==
    [op |-> o, cs |-> set, neg |-> negated, g |-> group, kids |-> children]
Cls(set)     == Node("chr", set, FALSE, 0, <<>>)
NotCls(set)  == Node("chr", set, TRUE, 0, <<>>)
Lit(c)       == Cls({c})
AnyChar      == NotCls({"\n"})
Cat(nodes)   == Node("cat", {}, FALSE, 0, nodes)
Alt(nodes)   == Node("alt", {}, FALSE, 0, nodes)
Star(n)      == Node("star", {}, FALSE, 0, <<n>>)
Plus(n)      == Cat(<<n, Star(n)>>)
Opt(n)       == Alt(<<n, Cat(<<>>)>>)
AtLeast2(n)  == Cat(<<n, n, Star(n)>>)
Grp(k, n)    == Node("grp", {}, FALSE, k, <<n>>)
Bol          == Node("bol", {}, FALSE, 0, <<>>)
Eol          == Node("eol", {}, FALSE, 0, <<>>)
Word(s)      == Cat([i \in 1..Len(s) |-> Lit(s[i])])

NoCaps == [k \in 1..3 |-> <<0, 0>>]

(***************************************************************************)
(* "".join(parts): the concatenation of a sequence of sequences.           *)
(***************************************************************************)
RECURSIVE ConcatRange(_, _, _)
ConcatRange(parts, lo, hi) ==
    IF lo > hi THEN << >>
    ELSE IF lo = hi THEN parts[lo]
    ELSE ConcatRange(parts, lo, (lo + hi) \div 2) \o ConcatRange(parts, (lo + hi) \div 2 + 1, hi)

Concat(parts) == ConcatRange(parts, 1, Len(parts))

(***************************************************************************)
(* Match(n, s, i, c): the ways pattern n matches s starting at position i, *)
(* in the order Python's backtracking tries them (greedy repetition first, *)
(* alternatives left to right); each is the end position and the groups.   *)
(***************************************************************************)
RECURSIVE Match(_, _, _, _), MatchCat(_, _, _, _), MatchThen(_, _, _)
Match(n, s, i, c) ==
    CASE n.op = "chr"  -> IF i <= Len(s) /\ ((s[i] \in n.cs) # n.neg)
                          THEN << [e |-> i + 1, c |-> c] >> ELSE << >>
      [] n.op = "cat"  -> MatchCat(n.kids, s, i, c)
      [] n.op = "alt"  -> Concat([k \in 1..Len(n.kids) |-> Match(n.kids[k], s, i, c)])
      [] n.op = "star" /\ n.kids[1].op = "chr" ->
            \* a repeated character class: the longest run first, then each shorter one
            LET In(j)  == (s[j] \in n.kids[1].cs) # n.kids[1].neg
                stop   == CHOOSE e \in i..(Len(s) + 1) :
                             /\ \A j \in i..(e - 1) : In(j)
                             /\ e = Len(s) + 1 \/ ~In(e)
            IN  [k \in 1..(stop - i + 1) |-> [e |-> stop + 1 - k, c |-> c]]
      [] n.op = "star" /\ n.kids[1].op # "chr" ->
            MatchThen(SelectSeq(Match(n.kids[1], s, i, c), LAMBDA r : r.e > i), <<n>>, s)
            \o << [e |-> i, c |-> c] >>
      [] n.op = "grp"  -> LET R == Match(n.kids[1], s, i, c)
                          IN  [k \in 1..Len(R) |->
                                 [e |-> R[k].e, c |-> [R[k].c EXCEPT ![n.g] = <<i, R[k].e>>]]]
      [] n.op = "bol"  -> IF i = 1 THEN << [e |-> i, c |-> c] >> ELSE << >>
      [] n.op = "eol"  -> IF i = Len(s) + 1 THEN << [e |-> i, c |-> c] >> ELSE << >>

MatchCat(nodes, s, i, c) ==
    IF nodes = << >> THEN << [e |-> i, c |-> c] >>
    ELSE MatchThen(Match(Head(nodes), s, i, c), Tail(nodes), s)

MatchThen(results, nodes, s) ==
    IF nodes = << >> \/ results = << >> THEN results
    ELSE IF Len(results) = 1 THEN MatchCat(nodes, s, results[1].e, results[1].c)
    ELSE Concat([k \in 1..Len(results) |-> MatchCat(nodes, s, results[k].e, results[k].c)])

\* re.search(pattern, s) is not None
Search(n, s) == \E i \in 1..(Len(s) + 1) : Match(n, s, i, NoCaps) # << >>

\* re.match(pattern, s) is not None
MatchAtStart(n, s) == Match(n, s, 1, NoCaps) # << >>

\* A replacement template: characters, and "\\1", "\\2", "\\3" for the groups.
Expand(tpl, s, c) ==
    Concat([k \in 1..Len(tpl) |->
              CASE tpl[k] = "\\1" -> SubSeq(s, c[1][1], c[1][2] - 1)
                [] tpl[k] = "\\2" -> SubSeq(s, c[2][1], c[2][2] - 1)
                [] tpl[k] = "\\3" -> SubSeq(s, c[3][1], c[3][2] - 1)
                [] OTHER -> << tpl[k] >>])

\* The leftmost non-overlapping matches of the pattern at or after pos, each
\* with its start b, its end e and its groups c.  No pattern of the program
\* matches the empty string.
RECURSIVE Matches(_, _, _)
Matches(n, s, pos) ==
    LET Hit(i) == LET R == Match(n, s, i, NoCaps) IN R # << >> /\ R[1].e > i
        found  == {i \in pos..Len(s) : Hit(i)}
        b      == CHOOSE i \in found : \A j \in found : i <= j
        first  == Match(n, s, b, NoCaps)[1]
    IN  IF found = {} THEN << >>
        ELSE << [b |-> b, e |-> first.e, c |-> first.c] >> \o Matches(n, s, first.e)

\* re.sub(pattern, template, s): each match replaced by the expanded template
SubFrom(n, tpl, s, pos) ==
    LET ms == Matches(n, s, pos)
        Piece(i) ==
            IF \E k \in 1..Len(ms) : ms[k].b = i
            THEN Expand(tpl, s, ms[CHOOSE k \in 1..Len(ms) : ms[k].b = i].c)
            ELSE IF \E k \in 1..Len(ms) : ms[k].b < i /\ i < ms[k].e THEN << >>
            ELSE << s[i] >>
    IN  IF ms = << >> THEN SubSeq(s, pos, Len(s))
        ELSE Concat([i \in 1..Len(s) |-> IF i < pos THEN << >> ELSE Piece(i)])

Sub(n, tpl, s) == Call("SubFrom", <<n, tpl, s, 1>>)

\* str.replace(old, new)
Replace(s, old, new) == Call("SubFrom", <<Word(old), new, s, 1>>)

\* str.count(c) for a one-character c
Count(s, ch) == Cardinality({i \in 1..Len(s) : s[i] = ch})

\* str.strip()
LStrip(s) ==
    IF \A i \in 1..Len(s) : s[i] \in Space THEN << >>
    ELSE SubSeq(s, CHOOSE i \in 1..Len(s) : s[i] \notin Space /\ \A j \in 1..(i - 1) : s[j] \in Space,
                Len(s))
RStrip(s) ==
    IF \A i \in 1..Len(s) : s[i] \in Space THEN << >>
    ELSE SubSeq(s, 1,
                CHOOSE i \in 1..Len(s) : s[i] \notin Space /\ \A j \in (i + 1)..Len(s) : s[j] \in Space)
Strip(s)  == LStrip(RStrip(s))

Repeat(ch, k) == [i \in 1..k |-> ch]

(***************************************************************************)
(* Characters written by code point, each one character: the backquote and *)
(* the characters outside ASCII that the cleaner names.                    *)
(***************************************************************************)
Backtick == "U+0060"
MulSign  == "U+00D7"
CapICirc == "U+00CE"
RaQuo    == "U+00BB"

FracWord == <<"\\", "f", "r", "a", "c">>
TextWord == <<"\\", "t", "e", "x", "t">>

(***************************************************************************)
(* AnswerGenerator.is_mathematical_expression: "display", "inline" or      *)
(* "none" (Python's False).                                                *)
(***************************************************************************)
\* a rule list without rules
NoPatterns == << >>

ComplexPatterns ==
    << Cat(<<Word(FracWord), Lit("{"), Plus(NotCls({"}"})), Lit("}"),
             Lit("{"), Plus(NotCls({"}"})), Lit("}")>>),
       Cat(<<Cls(Alpha), Lit("_"), Cls(Alnum \cup {"{"}), Star(AnyChar), Lit("="),
             Star(AnyChar), Word(FracWord)>>),
       Cat(<<Cls(Alnum), Lit("^"), Cls(Alnum \cup {"{"}), Star(AnyChar), Lit("=")>>),
       Cat(<<Cls(Alpha), Lit("_"), Plus(Cls(Alpha)), Star(Cls(Space)), Lit("="),
             Star(Cls(Space)), Opt(Cls({"+", "-"})), Star(Cls(Space)), Word(FracWord)>>),
       Cat(<<Lit("/"), Plus(Cls(Alnum))>>) >>

SimplePatterns ==
    << Cat(<<Cls(Alpha), Lit("_"), Cls(Alnum \cup {"{"})>>),
       Cat(<<Cls(Alnum), Lit("^"), Cls(Alnum \cup {"{"})>>),
       Cat(<<Cls(Alpha), Star(Cls(Space)), Lit("="), Star(Cls(Space)),
             Star(NotCls(Lower)), Cls(Digit)>>),
       Cat(<<Lit("\\"), Plus(Cls(Alpha))>>),
       Cat(<<Lit("^"), Plus(Cls(Digit))>>) >>

\* the classifier with the simple rules checked first
SimpleBeforeComplex(text) ==
    IF text = << >> \/ Len(Strip(text)) < 2 THEN "none"
    ELSE IF \E k \in 1..Len(SimplePatterns) : Call("Search", <<SimplePatterns[k], text>>) THEN "inline"
    ELSE IF \E k \in 1..Len(ComplexPatterns) : Call("Search", <<ComplexPatterns[k], text>>) THEN "display"
    ELSE "none"

IsMathematicalExpression(text) ==
    IF text = << >> \/ Len(Strip(text)) < 2 THEN "none"
    ELSE IF \E k \in 1..Len(ComplexPatterns) : Call("Search", <<ComplexPatterns[k], text>>) THEN "display"
    ELSE IF \E k \in 1..Len(SimplePatterns) : Call("Search", <<SimplePatterns[k], text>>) THEN "inline"
    ELSE "none"

(***************************************************************************)
(* AnswerGenerator.clean_math_expression, one definition per source line.  *)
(***************************************************************************)
UnitAlternatives ==
    Alt(<<Word(<<"K", "N", "-", "m">>), Word(<<"K", "N">>), Word(<<"k", "N", "-", "m">>),
          Word(<<"k", "N">>), Word(<<"N", "-", "m">>), Word(<<"N">>)>>)

\* the template r'\1 \text{\2}': Python's template reads \t as a TAB
TabTextTemplate == <<"\\1", " ", "\t", "e", "x", "t", "{", "\\2", "}">>

DecimalNumber == Cat(<<Plus(Cls(Digit)), Opt(Cat(<<Lit("."), Plus(Cls(Digit))>>))>>)

SymbolMap ==
    << [text |-> <<"(", "t", "h", "e", "r", "e", "f", "o", "r", "e", ")">>,
        name |-> <<"t", "h", "e", "r", "e", "f", "o", "r", "e">>],
       [text |-> <<"(", "s", "i", "g", "m", "a", ")">>,
        name |-> <<"s", "i", "g", "m", "a">>],
       [text |-> <<"(", "i", "n", "f", "t", "y", ")">>,
        name |-> <<"i", "n", "f", "t", "y">>] >>

\* an expression left as it is, unmatched parentheses included
KeepParens(e) == e

\* if expr.count('(') > expr.count(')'): expr += ')' * (the difference)
CloseParens(e) ==
    IF Count(e, "(") > Count(e, ")") THEN e \o Repeat(")", Count(e, "(") - Count(e, ")")) ELSE e

\* return expr if expr and expr != '{}' else ""
NoPlaceholder(e) == IF e = << >> \/ e = <<"{", "}">> THEN << >> ELSE e

CleanMathExpression(expr) ==
    IF expr = << >> \/ Strip(expr) = << >> THEN << >>
    ELSE
    LET e29 == Strip(Sub(Alt(<<Cat(<<Bol, Plus(Lit(Backtick))>>), Cat(<<Plus(Lit(Backtick)), Eol>>)>>),
                         << >>, expr))
        e30 == Sub(Cat(<<Lit("_"), Lit("("), Star(Cls(Space)), Grp(1, Plus(NotCls({")"}))),
                         Star(Cls(Space)), Lit(")")>>),
                   <<"_", "\\1">>, e29)
        e31 == Sub(Cat(<<Lit("_"), Grp(1, AtLeast2(Cls(Alpha)))>>), <<"_", "\\1">>, e30)
        e32 == Sub(Cat(<<Lit("^"), Grp(1, AtLeast2(Cls(Alnum)))>>), <<"^", "\\1">>, e31)
        e33 == Sub(Cat(<<Lit("^"), Grp(1, Cat(<<Opt(Cls({"+", "-"})), Plus(Cls(Digit))>>))>>),
                   <<"^", "\\1">>, e32)
        e34 == Sub(Cat(<<Lit("^"), Grp(1, Cat(<<Opt(Cls({"+", "-"})), Plus(Cls(Alpha))>>))>>),
                   <<"^", "\\1">>, e33)
        e35 == Sub(Cat(<<Grp(1, Plus(Cls(Alpha))), Star(Cls(Space)), Lit("/"), Star(Cls(Space)),
                         Grp(2, Cat(<<Plus(Cls(Alpha)), Lit("-"), Plus(Cls(Alpha))>>))>>),
                   TextWord \o <<"{", "\\1", "}", "/">> \o TextWord \o <<"{", "\\2", "}">>, e34)
        e36 == Sub(Cat(<<Grp(1, Plus(Cls(Alpha))), Lit("-"), Grp(2, Plus(Cls(Alpha)))>>),
                   <<"\\1", " ", "\\", "c", "d", "o", "t", " ", "\\2">>, e35)
        e37 == Sub(Cat(<<Grp(1, Cat(<<Plus(Cls(Digit)), Lit("."), Plus(Cls(Digit))>>)),
                         Star(Cls(Space)), Word(TextWord), Lit("{"), Grp(2, Plus(Cls(Alpha))),
                         Lit("}"), Lit("/"), Word(TextWord), Lit("{"),
                         Grp(3, Cat(<<Plus(Cls(Alpha)), Word(<<" ", "\\", "c", "d", "o", "t", " ">>),
                                      Plus(Cls(Alpha))>>)),
                         Lit("}")>>),
                   <<"\\1", " ", "\\", ";", " ">> \o FracWord \o <<"{">> \o TextWord
                     \o <<"{", "\\2", "}", "}", "{">> \o TextWord \o <<"{", "\\3", "}", "}">>,
                   e36)
        e38 == Replace(Replace(e37, <<"*">>, <<"\\", "t", "i", "m", "e", "s">>),
                       <<MulSign>>, <<"\\", "t", "i", "m", "e", "s">>)
        e40 == Sub(Cat(<<Grp(1, Cls(Digit)), Grp(2, Word(<<"O", "m", "e", "g", "a">>))>>),
                   <<"\\1", " ", "\\", "O", "m", "e", "g", "a">>, e38)
        e41 == Sub(Cat(<<Grp(1, Plus(Cls(Digit \cup {"."}))), Star(Cls(Space)),
                         Grp(2, UnitAlternatives)>>),
                   TabTextTemplate, e40)
        e42 == Sub(Cat(<<Lit("-"), Star(Cls(Space)), Word(<<"f", "r", "a", "c">>)>>),
                   <<"-", "f", "r", "a", "c">>, e41)
        e43 == Sub(Cat(<<Grp(1, Cls(Alnum)), Lit("^"), Grp(2, Plus(Cls(Alnum)))>>),
                   <<"\\1", "^", "\\2">>, e42)
        e44 == Sub(Cat(<<Lit("("), Grp(1, Plus(NotCls({")"}))), Lit(")"), Star(Cls(Space)),
                         Lit("/"), Star(Cls(Space)), Grp(2, Plus(Cls(Digit)))>>),
                   <<"f", "r", "a", "c", "{", "\\1", "}", "{", "\\2", "}">>, e43)
        e45 == Sub(Cat(<<Grp(1, Plus(Cls(Alnum))), Lit("/"), Grp(2, Plus(Cls(Alnum)))>>),
                   <<"f", "r", "a", "c", "{", "\\1", "}", "{", "\\2", "}">>, e44)
        e46 == Sub(Cat(<<Grp(1, Cat(<<Plus(Cls(Alpha)), Star(Cls(Digit))>>)), Lit("/"),
                         Grp(2, Plus(Cls(Digit)))>>),
                   <<"f", "r", "a", "c", "{", "\\1", "}", "{", "\\2", "}">>, e45)
        e47 == Sub(Cat(<<Lit("="), Star(Cls(Space)), Lit("-"), Star(Cls(Space))>>),
                   <<" ", "=", " ", "-">>, e46)
        e48 == Sub(Cat(<<Lit("="), Star(Cls(Space)), Lit("+"), Star(Cls(Space))>>),
                   <<" ", "=", " ", "+">>, e47)
        e49 == Sub(Cat(<<Grp(1, DecimalNumber), Star(Cls(Space)),
                         Grp(2, Cat(<<Plus(Cls(Alpha)), Lit("-"), Plus(Cls(Alpha))>>))>>),
                   TabTextTemplate, e48)
        e50 == Sub(Cat(<<Grp(1, DecimalNumber), Star(Cls(Space)),
                         Grp(2, Alt(<<Word(<<"K", "N", "-", "m">>), Word(<<"k", "N", "-", "m">>),
                                      Word(<<"N", "-", "m">>)>>))>>),
                   TabTextTemplate, e49)
        e51 == CloseParens(e50)
        e52 == Replace(Replace(e51, <<CapICirc, RaQuo>>, <<"l", "a", "m", "b", "d", "a">>),
                       <<"\\", "\\">>, <<"\\">>)
        e53 == Replace(Replace(Replace(e52, SymbolMap[1].text, SymbolMap[1].name),
                               SymbolMap[2].text, SymbolMap[2].name),
                       SymbolMap[3].text, SymbolMap[3].name)
        e54 == Strip(Sub(Plus(Cls(Space)), <<" ">>, e53))
        \* the lines in the order they run
        lines == << e29, e30, e31, e32, e33, e34, e35, e36, e37, e38, e40, e41, e42, e43,
                    e44, e45, e46, e47, e48, e49, e50, e51, e52, e53, e54 >>
    IN  NoPlaceholder(lines[Len(lines)])

(***************************************************************************)
(* AnswerGenerator._convert_asciimath_to_latex_for_copy                    *)
(***************************************************************************)
\* a conversion that leaves the cleaned expression as it is
KeepAsciimath(str) == str

ConvertAsciimathToLatexForCopy(str) ==
    IF str = << >> THEN << >>
    ELSE
    LET l1 == Replace(str, <<"f", "r", "a", "c", "{">>, FracWord \o <<"{">>)
        l2 == Replace(l1, <<" ", "\\", "t", "i", "m", "e", "s", " ">>,
                      <<"\\", "t", "i", "m", "e", "s", " ">>)
        l3 == Replace(l2, <<"t", "e", "x", "t", "{">>, TextWord \o <<"{">>)
        l4 == Sub(Cat(<<Lit("_"), Grp(1, Plus(Cls(Alnum)))>>), <<"_", "{", "\\1", "}">>, l3)
        l5 == Sub(Cat(<<Lit("^"), Grp(1, Plus(Cls(Alnum)))>>), <<"^", "{", "\\1", "}">>, l4)
        l6 == Sub(Cat(<<Lit("("), Grp(1, Plus(Cls(Alpha))), Lit(")"), Lit("/"), Lit("("),
                        Grp(2, Cat(<<Plus(Cls(Alpha)),
                                     Opt(Cat(<<Lit("-"), Plus(Cls(Alpha))>>))>>)),
                        Lit(")")>>),
                  <<"(", "\\1", ")", "/", "(", "\\2", ")">>, l5)
        l7 == Replace(Replace(Replace(l6, SymbolMap[1].name, <<"\\">> \o SymbolMap[1].name),
                              SymbolMap[2].name, <<"\\">> \o SymbolMap[2].name),
                      SymbolMap[3].name, <<"\\">> \o SymbolMap[3].name)
        l8 == Replace(l7, <<"l", "a", "m", "b", "d", "a">>, <<"\\", "l", "a", "m", "b", "d", "a">>)
        \* the lines in the order they run
        lines == << l1, l2, l3, l4, l5, l6, l7, l8 >>
    IN  lines[Len(lines)]


(***************************************************************************)
(* JSON values of a payload, tagged by kind.  A string value is a sequence *)
(* of characters; a tag, key or label that no pattern ever reads is one    *)
(* element holding the whole word.  Raise is the outcome of an expression  *)
(* that raises (AttributeError, TypeError, IndexError): it propagates      *)
(* through the accessors below until a try/except of the code meets it.    *)
(***************************************************************************)
JNull     == [k |-> "null"]
Raise     == [k |-> "raise"]
JStr(s)   == [k |-> "str", v |-> s]
JNum(n)   == [k |-> "num", v |-> n]
JList(l)  == [k |-> "list", v |-> l]
JObj(f)   == [k |-> "obj", v |-> f]
\* a dict whose keys are "r-c" strings: a function of the pairs <<r, c>>
JGrid(g)  == [k |-> "grid", v |-> g]
W(word)   == JStr(<<word>>)
EmptyObj  == JObj(<< >>)
EmptyList == JList(<< >>)
EmptyStr  == JStr(<< >>)

IsRaise(j) == j.k = "raise"
IsStr(j)   == j.k = "str"
IsObj(j)   == j.k = "obj"
IsList(j)  == j.k = "list"

\* Python truthiness
Truthy(j) ==
    CASE j.k = "num"  -> j.v # 0
      [] j.k = "str"  -> j.v # << >>
      [] j.k = "list" -> j.v # << >>
      [] j.k = "obj"  -> DOMAIN j.v # {}
      [] j.k = "grid" -> DOMAIN j.v # {}
      [] OTHER        -> FALSE

\* dict.get(key, default); on a value that is no dict it raises
Get(j, key, dflt) ==
    IF j.k = "obj" THEN (IF key \in DOMAIN j.v THEN j.v[key] ELSE dflt) ELSE Raise

\* x or y
OrElse(x, y) == IF IsRaise(x) THEN Raise ELSE IF Truthy(x) THEN x ELSE y

\* x[0]
First(j) ==
    CASE j.k = "list" /\ j.v # << >> -> j.v[1]
      [] j.k = "str" /\ j.v # << >>  -> JStr(<< j.v[1] >>)
      [] OTHER -> Raise

\* key in x, for a key that is no element or substring of the model's lists and strings
HasKey(j, key) == j.k = "obj" /\ key \in DOMAIN j.v
InRaises(j)    == j.k \notin {"obj", "list", "str"}

\* for item in x: the items, and whether the loop header raises
IterRaises(j) == j.k \notin {"obj", "list", "str"}
Iter(j) ==
    CASE j.k = "list" -> j.v
      [] j.k = "str"  -> [i \in 1..Len(j.v) |-> JStr(<< j.v[i] >>)]
      [] j.k = "obj"  -> [i \in 1..Cardinality(DOMAIN j.v) |-> W("key")]
      [] OTHER -> << >>

\* x.strip() is blank or "{}", for a string x
BlankOrBraces(s) == Strip(s) = << >> \/ Strip(s) = <<"{", "}">>

\* the decimal digits of a natural number
RECURSIVE Digits(_)
Digits(n) ==
    LET d == <<"0", "1", "2", "3", "4", "5", "6", "7", "8", "9">>[(n % 10) + 1]
    IN  IF n < 10 THEN << d >> ELSE Digits(n \div 10) \o << d >>

\* str(x): a string is itself; a dict is "{}" or its repr, the keys in the
\* order of ReprKeys, each key one element between its quotes
ReprKeys == <<"type", "text", "latex", "listType", "items", "imagePath", "content">>
RECURSIVE Repr(_)
ReprFields(f, keys) ==
    Concat([k \in 1..Len(keys) |->
              IF keys[k] \in DOMAIN f
              THEN (IF \E h \in 1..(k - 1) : keys[h] \in DOMAIN f THEN <<",", " ">> ELSE << >>)
                   \o << "'", keys[k], "'", ":", " " >> \o Repr(f[keys[k]])
              ELSE << >>])
ReprItems(l) ==
    Concat([k \in 1..Len(l) |-> (IF k > 1 THEN <<",", " ">> ELSE << >>) \o Repr(l[k])])
Repr(j) ==
    CASE j.k = "str"  -> <<"'">> \o j.v \o <<"'">>
      [] j.k = "num"  -> Digits(j.v)
      [] j.k = "null" -> <<"None">>
      [] j.k = "list" -> <<"[">> \o ReprItems(j.v) \o <<"]">>
      [] j.k = "obj"  -> <<"{">> \o ReprFields(j.v, ReprKeys) \o <<"}">>
      [] OTHER -> << >>
StrOf(j) == IF j.k = "str" THEN j.v ELSE Repr(j)

(***************************************************************************)
(* Markup output: a sequence of tokens.  open/close/void are tags the code *)
(* writes (n the element, a its class or attribute, x its numbers); text   *)
(* is character data the code escaped (html.escape); raw is character data *)
(* the code wrote unescaped; raise marks that the expression raised.  An   *)
(* SVG element also carries st, its style values (fill, stroke,            *)
(* stroke-width, stroke-dasharray), tr, its transform string, and rot, the *)
(* rotation appended to it; SVG coordinates are kept doubled, so that the  *)
(* halves the code computes stay integers.                                 *)
(***************************************************************************)
Tok(kind, name, attr, nums, chars) ==
    [t |-> kind, n |-> name, a |-> attr, x |-> nums, s |-> chars,
     st |-> << >>, tr |-> << >>, rot |-> << >>]
Open(name, attr) == Tok("open", name, attr, << >>, << >>)
Close(name)      == Tok("close", name, "", << >>, << >>)
Void(name, attr) == Tok("void", name, attr, << >>, << >>)
Text(chars)      == Tok("text", "", "", << >>, chars)
Raw(chars)       == Tok("raw", "", "", << >>, chars)
RaiseTok         == Tok("raise", "", "", << >>, << >>)

Raised(toks) == \E i \in 1..Len(toks) : toks[i].t = "raise"

\* markup.strip() is empty
Blank(toks) == \A i \in 1..Len(toks) : toks[i].t \in {"text", "raw"} /\ Strip(toks[i].s) = << >>

\* try: body / except: fallback
Try(body, fallback) == IF Raised(body) THEN fallback ELSE body


\* the concatenation of F(s[1]), ..., F(s[n])
FlatMap(F(_), s) == Concat([i \in 1..Len(s) |-> F(s[i])])

\* clean_math_expression and is_mathematical_expression on a payload value:
\* a falsy value is "no math", a truthy value that is no string raises at .strip()
CleanRaises(j)  == IsRaise(j) \/ (Truthy(j) /\ ~IsStr(j))
CleanOf(j)      == IF IsStr(j) THEN Call("CleanMathExpression", <<j.v>>) ELSE << >>
IsMathOf(j)     == IF IsStr(j) THEN Call("IsMathematicalExpression", <<j.v>>) ELSE "none"

(***************************************************************************)
(* The rich-text renderers: process_paragraph, process_bullet_list,        *)
(* process_ordered_list, process_heading, process_content_item.            *)
(***************************************************************************)
\* the span a math run is wrapped in
MathSpan(mathType, cleaned, mode) ==
    IF mode = "display"
    THEN IF mathType = "display"
         THEN << Open("span", "equation-line"),
                 Raw(<<Backtick>> \o cleaned \o <<Backtick>>), Close("span") >>
         ELSE << Raw(<<Backtick>> \o cleaned \o <<Backtick>>) >>
    ELSE << Open("span", "mhchem"), Raw(cleaned), Close("span") >>

\* for mark in marks: wrap the text; a heading honours bold only
RECURSIVE ApplyMarks(_, _, _)
ApplyMarks(marks, toks, boldOnly) ==
    IF marks = << >> THEN toks
    ELSE LET ty == Get(Head(marks), "type", JNull)
             el == CASE ty = W("bold") -> "strong"
                     [] ty = W("italic") /\ ~boldOnly -> "i"
                     [] ty = W("code") /\ ~boldOnly -> "code"
                     [] OTHER -> ""
         IN  IF IsRaise(ty) THEN << RaiseTok >>
             ELSE ApplyMarks(Tail(marks),
                             IF el = "" THEN toks ELSE << Open(el, "") >> \o toks \o << Close(el) >>,
                             boldOnly)

\* one text run of a paragraph or heading
TextRun(item, mode, boldOnly) ==
    LET raw   == Get(item, "text", EmptyStr)
        marks == Get(item, "marks", EmptyList)
    IN  IF ~IsStr(raw) THEN << RaiseTok >>
        ELSE IF BlankOrBraces(raw.v) THEN << >>
        ELSE LET mt      == Call("IsMathematicalExpression", <<raw.v>>)
                 cleaned == Call("CleanMathExpression", <<raw.v>>)
             IN  IF mt # "none" /\ cleaned = << >> THEN << >>
                 ELSE IF IterRaises(marks) THEN << RaiseTok >>
                 ELSE ApplyMarks(Iter(marks),
                                 IF mt # "none" THEN Call("MathSpan", <<mt, cleaned, mode>>)
                                 ELSE << Text(raw.v) >>,
                                 boldOnly)

ParagraphItem(item, mode) ==
    LET ty == Get(item, "type", JNull)
    IN  IF IsRaise(ty) THEN << RaiseTok >>
        ELSE IF ty = W("text") THEN Call("TextRun", <<item, mode, FALSE>>)
        ELSE IF ty = W("inlineMath")
             THEN LET mathText == Get(First(Get(item, "content", JList(<<EmptyObj>>))),
                                      "text", EmptyStr)
                  IN  IF CleanRaises(mathText) THEN << RaiseTok >>
                      ELSE IF CleanOf(mathText) = << >> THEN << >>
                      ELSE MathSpan(IsMathematicalExpression(CleanOf(mathText)),
                                    CleanOf(mathText), mode)
        ELSE IF ty = W("hardBreak") THEN << Void("br", "") >>
        ELSE << >>

ProcessParagraph(contentItem, mode) ==
    LET content == Get(contentItem, "content", EmptyList)
        body    == FlatMap(LAMBDA item : ParagraphItem(item, mode), Iter(content))
    IN  Try(IF IsRaise(content) THEN << RaiseTok >>
            ELSE IF ~Truthy(content) THEN << >>
            ELSE IF IterRaises(content) THEN << RaiseTok >>
            ELSE IF body = << >> THEN << >>
            ELSE << Open("p", "") >> \o body \o << Close("p") >>,
            << >>)

ProcessHeading(contentItem, mode) ==
    LET level   == Get(Get(contentItem, "attrs", EmptyObj), "level", JNum(3))
        content == Get(contentItem, "content", EmptyList)
        body    == FlatMap(LAMBDA item :
                             LET ty == Get(item, "type", JNull)
                             IN  IF IsRaise(ty) THEN << RaiseTok >>
                                 ELSE IF ty = W("text") THEN Call("TextRun", <<item, mode, TRUE>>)
                                 ELSE << >>,
                           Iter(content))
    IN  Try(IF IsRaise(level) \/ IsRaise(content) \/ IterRaises(content) THEN << RaiseTok >>
            ELSE IF body = << >> THEN << >>
            ELSE << Tok("open", "h", "", << >>, StrOf(level)) >> \o body
                 \o << Tok("close", "h", "", << >>, StrOf(level)) >>,
            << >>)


\* one listItem of a list: "<li>" + the non-blank renderings of its items + "</li>"
ListItem(listItem, mode) ==
    LET ty    == Get(listItem, "type", JNull)
        sub   == Get(listItem, "content", EmptyList)
        inner == FlatMap(LAMBDA item :
                           LET h == Call("ProcessContentItem", <<item, mode>>)
                           IN  IF Blank(h) THEN << >> ELSE h,
                         Iter(sub))
    IN  IF IsRaise(ty) THEN << RaiseTok >>
        ELSE IF ty # W("listItem") THEN << >>
        ELSE IF IsRaise(sub) \/ IterRaises(sub) THEN << RaiseTok >>
        ELSE IF inner = << >> THEN << >>
        ELSE << Open("li", "") >> \o inner \o << Close("li") >>

\* the list items of a list, rendered
ListBody(content, mode) == FlatMap(LAMBDA li : ListItem(li, mode), Iter(content))

ProcessBulletList(contentItem, mode) ==
    LET content == Get(contentItem, "content", EmptyList)
        body    == ListBody(content, mode)
    IN  Try(IF IsRaise(content) THEN << RaiseTok >>
            ELSE IF ~Truthy(content) THEN << >>
            ELSE IF IterRaises(content) THEN << RaiseTok >>
            ELSE IF body = << >> THEN << >>
            ELSE << Open("ul", "") >> \o body \o << Close("ul") >>,
            << >>)

\* the list opens with "<ul" and closes with "</ol>"; start is read and not written
ProcessOrderedList(contentItem, mode) ==
    LET content == Get(contentItem, "content", EmptyList)
        start   == Get(Get(contentItem, "attrs", EmptyObj), "start", JNum(1))
        body    == ListBody(content, mode)
    IN  Try(IF IsRaise(content) THEN << RaiseTok >>
            ELSE IF ~Truthy(content) THEN << >>
            ELSE IF IsRaise(start) \/ IterRaises(content) THEN << RaiseTok >>
            ELSE IF body = << >> THEN << >>
            ELSE << Open("ul", "") >> \o body \o << Close("ol") >>,
            << >>)

ProcessContentItem(contentItem, mode) ==
    LET ty == Get(contentItem, "type", EmptyStr)
    IN  Try(CASE IsRaise(ty)           -> << RaiseTok >>
              [] ty = W("paragraph")   -> Call("ProcessParagraph", <<contentItem, mode>>)
              [] ty = W("bulletList")  -> ProcessBulletList(contentItem, mode)
              [] ty = W("orderedList") -> ProcessOrderedList(contentItem, mode)
              [] ty = W("heading")     -> Call("ProcessHeading", <<contentItem, mode>>)
              [] OTHER                 -> << >>,
            << >>)


(***************************************************************************)
(* The block renderers of process_block_enhanced, tables and drawings      *)
(* apart.                                                                  *)
(***************************************************************************)
\* block.get("block", {}).get("editorContentState", {}).get("content", [])
EditorContentOf(block) ==
    Get(Get(Get(block, "block", EmptyObj), "editorContentState", EmptyObj), "content", EmptyList)

ParagraphOf(chars) ==
    JObj([type |-> W("paragraph"),
          content |-> JList(<< JObj([type |-> W("text"), text |-> JStr(chars)]) >>)])

\* the generator inside _process_text_block's any(): "T", "F", or "R" when it raises
TextItemCounts(c) ==
    LET ty == Get(c, "type", JNull)
        tx == Get(c, "text", EmptyStr)
    IN  IF IsRaise(ty) THEN "R"
        ELSE IF ty # W("text") THEN "F"
        ELSE IF ~IsStr(tx) THEN "R"
        ELSE IF BlankOrBraces(tx.v) THEN "F" ELSE "T"

\* any(f(x) for x in s): the first "T" or "R" decides
RECURSIVE AnyOf(_)
AnyOf(flags) ==
    IF flags = << >> THEN "F"
    ELSE IF Head(flags) = "F" THEN AnyOf(Tail(flags)) ELSE Head(flags)

ItemHasContent(item) ==
    LET ty == Get(item, "type", JNull)
        ct == Get(item, "content", JNull)
    IN  IF IsRaise(ty) THEN "R"
        ELSE IF ty = W("paragraph") /\ Truthy(ct)
             THEN IF IterRaises(ct) THEN "R"
                  ELSE AnyOf([i \in 1..Len(Iter(ct)) |-> TextItemCounts(Iter(ct)[i])])
        ELSE IF ty \in {W("bulletList"), W("orderedList")} /\ Truthy(ct) THEN "T"
        ELSE "F"

ProcessTextBlock(block, blockType, mode) ==
    LET given    == EditorContentOf(block)
        content  == Get(block, "content", EmptyObj)
        textJ    == OrElse(Get(content, "text", EmptyStr), JStr(StrOf(Get(block, "content", EmptyStr))))
        editor   == IF Truthy(given) THEN given ELSE JList(<< ParagraphOf(textJ.v) >>)
        items    == Iter(editor)
        has      == AnyOf([i \in 1..Len(items) |-> ItemHasContent(items[i])])
        label    == Get(block, "label", W("Explanation"))
        head     == IF blockType = W("EXPLANATION")
                    THEN << Open("div", "explanation-block"), Open("h2", ""),
                            Text(label.v), Close("h2") >>
                    ELSE << >>
        body     == FlatMap(LAMBDA item :
                              LET h == Call("ProcessContentItem", <<item, mode>>)
                              IN  IF Blank(h) THEN << >> ELSE h,
                            items)
    IN  IF IsRaise(given) THEN << RaiseTok >>
        ELSE IF ~Truthy(given) /\ (IsRaise(textJ) \/ ~IsStr(textJ)) THEN << RaiseTok >>
        ELSE IF ~Truthy(given) /\ BlankOrBraces(textJ.v) THEN << >>
        ELSE IF IterRaises(editor) \/ has = "R" THEN << RaiseTok >>
        ELSE IF has = "F" THEN << >>
        ELSE IF blockType = W("EXPLANATION") /\ ~IsStr(label) THEN << RaiseTok >>
        ELSE IF head = << >> THEN body
        ELSE head \o body \o << Close("div") >>

ProcessListBlock(block, mode) ==
    LET editor == EditorContentOf(block)
    IN  IF IsRaise(editor) \/ IterRaises(editor) THEN << RaiseTok >>
        ELSE FlatMap(LAMBDA item :
                       LET h == Call("ProcessContentItem", <<item, mode>>)
                       IN  IF Blank(h) THEN << >> ELSE h,
                     Iter(editor))

ProcessCodeSnippet(block) ==
    LET content  == Get(Get(Get(block, "block", EmptyObj), "content", EmptyObj), "content", EmptyList)
        codeText == Get(First(Get(First(content), "content", JList(<<EmptyObj>>))), "text", EmptyStr)
    IN  Try(IF IsRaise(content) THEN << RaiseTok >>
            ELSE IF ~Truthy(content) THEN << >>
            ELSE IF ~IsStr(codeText) THEN << RaiseTok >>
            ELSE IF BlankOrBraces(codeText.v) THEN << >>
            ELSE << Open("pre", ""), Open("code", ""), Text(codeText.v),
                    Close("code"), Close("pre") >>,
            << >>)

ProcessImageUpload(block) ==
    LET path == OrElse(Get(Get(block, "block", EmptyObj), "imagePath", EmptyStr),
                       Get(Get(block, "content", EmptyObj), "imagePath", EmptyStr))
        alt  == OrElse(Get(Get(block, "block", EmptyObj), "altText", W("Image")),
                       Get(Get(block, "content", EmptyObj), "altText", W("Image")))
    IN  Try(IF ~IsStr(path) THEN << RaiseTok >>
            ELSE IF Strip(path.v) = << >> THEN << >>
            ELSE IF ~IsStr(alt) THEN << RaiseTok >>
            ELSE << Tok("open", "a", "gallery", << >>, path.v),
                    Tok("void", "img", "", << >>, path.v), Close("a") >>,
            << >>)

\* one equation line: f"{left} {operator} {right}", cleaned
EquationString(eqn) ==
    StrOf(Get(eqn, "left", EmptyStr)) \o <<" ">> \o StrOf(Get(eqn, "operator", EmptyStr))
      \o <<" ">> \o StrOf(Get(eqn, "right", EmptyStr))

ProcessEquationBlock(block, mode) ==
    LET lines == Get(Get(block, "block", EmptyObj), "lines", EmptyList)
        body  == FlatMap(LAMBDA eqn :
                           IF ~IsObj(eqn) THEN << RaiseTok >>
                           ELSE LET cleaned == Call("CleanMathExpression", <<EquationString(eqn)>>)
                                IN  IF cleaned = << >> THEN << >>
                                    ELSE IF mode = "display"
                                    THEN << Open("span", "equation-line"),
                                            Raw(<<Backtick>> \o cleaned \o <<Backtick>>),
                                            Close("span") >>
                                    ELSE << Open("p", ""), Open("span", "mhchem"), Raw(cleaned),
                                            Close("span"), Close("p") >>,
                         Iter(lines))
    IN  Try(IF IsRaise(lines) \/ IterRaises(lines) THEN << RaiseTok >> ELSE body, << >>)

\* x.get("content", [{}])[0].get("content", [{}])[0].get("text", "")
FirstText(x) ==
    Get(First(Get(First(Get(x, "content", JList(<<EmptyObj>>))), "content", JList(<<EmptyObj>>))),
        "text", EmptyStr)

MathLine(textJ, mode) ==
    IF ~IsStr(textJ) THEN << RaiseTok >>
    ELSE IF BlankOrBraces(textJ.v) \/ Call("CleanMathExpression", <<textJ.v>>) = << >> THEN << >>
    ELSE IF mode = "display"
    THEN << Open("span", "equation-line"),
            Raw(<<Backtick>> \o Call("CleanMathExpression", <<textJ.v>>) \o <<Backtick>>), Close("span") >>
    ELSE << Open("span", "mhchem"), Raw(Call("CleanMathExpression", <<textJ.v>>)), Close("span") >>

ProcessMathInTextBlock(block, mode) ==
    LET data   == Get(block, "block", EmptyObj)
        title  == FirstText(Get(data, "title", EmptyObj))
        expr   == Get(Get(data, "expression", EmptyObj), "content", EmptyList)
        result == FirstText(Get(data, "result", EmptyObj))
    IN  Try(IF IsRaise(title) \/ IsRaise(expr) \/ IsRaise(result) THEN << RaiseTok >>
            ELSE IF Truthy(title) /\ ~IsStr(title) THEN << RaiseTok >>
            ELSE IF IterRaises(expr) THEN << RaiseTok >>
            ELSE (IF Truthy(title) THEN << Open("p", ""), Text(title.v), Close("p") >> ELSE << >>)
                 \o FlatMap(LAMBDA e : MathLine(Get(First(Get(e, "content", JList(<<EmptyObj>>))),
                                                    "text", EmptyStr), mode),
                            Iter(expr))
                 \o MathLine(result, mode),
            << >>)

\* the HTML block: its content, unescaped
ProcessHtmlBlock(block) ==
    LET content == Get(block, "content", EmptyStr)
    IN  IF ~IsStr(content) THEN << RaiseTok >>
        ELSE IF Strip(content.v) = << >> THEN << >> ELSE << Raw(content.v) >>


(***************************************************************************)
(* Generic tables: _extract_cell_data and process_generic_table.           *)
(***************************************************************************)
\* the keys of a cell map, and dict.get(f"{r}-{c}", default) on it
GridKeys(g) == IF g.k = "grid" THEN DOMAIN g.v ELSE {}
GridGet(g, r, c, dflt) ==
    CASE g.k = "grid" -> IF <<r, c>> \in DOMAIN g.v THEN g.v[<<r, c>>] ELSE dflt
      [] g.k = "obj"  -> dflt
      [] OTHER -> Raise

\* recurse_content: the text parts in document order, the last alignment set
RecurseContent(contentList, alignment) ==
    LET items == Iter(contentList)
        step[i \in 0..Len(items)] ==
            IF i = 0 THEN [raise |-> IterRaises(contentList), parts |-> << >>, align |-> alignment]
            ELSE LET acc  == step[i - 1]
                     item == items[i]
                     ty   == Get(item, "type", JNull)
                     al   == Get(Get(item, "attrs", EmptyObj), "textAlign", JNull)
                     p1   == IF ty = W("text") /\ HasKey(item, "text")
                             THEN Append(acc.parts, item.v["text"]) ELSE acc.parts
                     a1   == IF ty = W("paragraph") /\ al \in {W("center"), W("right")}
                             THEN al.v[1] ELSE acc.align
                     sub  == IF HasKey(item, "content")
                             THEN Call("RecurseContent", <<item.v["content"], a1>>)
                             ELSE [raise |-> FALSE, parts |-> << >>, align |-> a1]
                 IN  IF acc.raise \/ IsRaise(ty) \/ (ty = W("paragraph") /\ IsRaise(al))
                     THEN [acc EXCEPT !.raise = TRUE]
                     ELSE [raise |-> sub.raise, parts |-> p1 \o sub.parts, align |-> sub.align]
    IN  step[Len(items)]

\* "".join(parts) of string parts
Join(parts) == FlatMap(LAMBDA part : part.v, parts)

ExtractCellData(cellValueObj) ==
    LET r == Call("RecurseContent", <<cellValueObj.v["content"], "left">>)
    IN  IF ~IsObj(cellValueObj) \/ ~HasKey(cellValueObj, "content")
        THEN [text |-> << >>, align |-> "left"]
        ELSE IF r.raise \/ \E i \in 1..Len(r.parts) : ~IsStr(r.parts[i])
        THEN [text |-> << >>, align |-> "left"]
        ELSE [text |-> Join(r.parts), align |-> r.align]

\* the cell map under its transposed keys: "r-c" becomes "c-r"
CorrectedCells(cells) ==
    [key \in {<<k[2], k[1]>> : k \in GridKeys(cells)} |-> cells.v[<<key[2], key[1]>>]]

MaxOf(S) == IF S = {} THEN 0 ELSE CHOOSE m \in S : \A n \in S : n <= m

\* the rows of process_generic_table, cell by cell in row-major order, with the shadow grid
GenericTableRows(cells, rowSpans, colSpans, rowCount, colCount) ==
    LET step[p \in 0..(rowCount * colCount)] ==
            IF p = 0 THEN [raise |-> FALSE, toks |-> << >>, shadow |-> {}, has |-> FALSE]
            ELSE LET acc     == step[p - 1]
                     r       == (p - 1) \div colCount
                     c       == (p - 1) % colCount
                     cell    == IF <<r, c>> \in DOMAIN cells THEN cells[<<r, c>>] ELSE JNull
                     value   == Get(cell, "value", EmptyObj)
                     data    == Call("ExtractCellData", <<value>>)
                     rowspan == GridGet(rowSpans, r, c, JNum(1))
                     colspan == GridGet(colSpans, r, c, JNum(1))
                     covered == {<<r + i, c + j>> : i \in 0..(rowspan.v - 1), j \in 0..(colspan.v - 1)}
                                  \cap ((0..(rowCount - 1)) \X (0..(colCount - 1)))
                     before  == (IF c = 0 /\ r = 0 THEN << Open("thead", "") >>
                                 ELSE IF c = 0 /\ r = 1 THEN << Open("tbody", "") >> ELSE << >>)
                                \o (IF c = 0 THEN << Tok("open", "tr", "table-row", <<r>>, << >>) >>
                                    ELSE << >>)
                     after   == (IF c = colCount - 1 THEN << Close("tr") >> ELSE << >>)
                                \o (IF c = colCount - 1 /\ r = 0 THEN << Close("thead") >> ELSE << >>)
                     tag     == IF r = 0 THEN "th" ELSE "td"
                 IN  IF acc.raise THEN acc
                     ELSE IF <<r, c>> \in acc.shadow
                     THEN [acc EXCEPT !.toks = acc.toks \o before \o after]
                     ELSE IF ~Truthy(cell)
                     THEN [acc EXCEPT !.toks = acc.toks \o before
                                                \o << Open("td", ""), Close("td") >> \o after]
                     ELSE IF IsRaise(value) \/ rowspan.k # "num" \/ colspan.k # "num"
                     THEN [acc EXCEPT !.raise = TRUE]
                     ELSE [raise  |-> FALSE,
                           toks   |-> acc.toks \o before
                                       \o << Tok("open", tag, data.align,
                                                 <<rowspan.v, colspan.v>>, << >>),
                                             Raw(data.text), Close(tag) >>
                                       \o after,
                           shadow |-> acc.shadow \cup covered,
                           has    |-> acc.has \/ Strip(data.text) # << >>]
    IN  step[rowCount * colCount]

ProcessGenericTable(block, mode) ==
    LET blockData == Get(block, "block", EmptyObj)
        given     == Get(blockData, "cells", EmptyObj)
        rowSpans  == Get(blockData, "rowSpans", EmptyObj)
        colSpans  == Get(blockData, "columnSpans", EmptyObj)
        cells     == CorrectedCells(given)
        rowCount  == MaxOf({key[1] : key \in DOMAIN cells}) + 1
        colCount  == MaxOf({key[2] : key \in DOMAIN cells}) + 1
        rows      == Call("GenericTableRows", <<cells, rowSpans, colSpans, rowCount, colCount>>)
    IN  Try(IF IsRaise(blockData) THEN << RaiseTok >>
            ELSE IF ~Truthy(blockData) THEN << >>
            ELSE IF given.k \notin {"grid", "obj"} THEN << RaiseTok >>
            ELSE IF IsRaise(rowSpans) \/ IsRaise(colSpans) THEN << RaiseTok >>
            ELSE IF DOMAIN cells = {} THEN << >>
            ELSE IF rows.raise THEN << RaiseTok >>
            ELSE IF ~rows.has THEN << >>
            ELSE << Open("div", "table-container"), Open("table", "generic-table") >>
                 \o rows.toks
                 \o (IF rowCount > 1 THEN << Close("tbody") >> ELSE << >>)
                 \o << Close("table"), Close("div") >>,
            << >>)


(***************************************************************************)
(* Drawings: process_drawing_block.  In the payloads of the model x, y, w  *)
(* and h are numbers or absent, and the children of a compound shape held  *)
(* in a dict are keyed "0", "1", "2" in that order.                        *)
(***************************************************************************)
\* no key of a keyed collection is visited
NoChildKeys == << >>
ChildKeys == <<"0", "1", "2">>

\* get_style: the values of fill, stroke, stroke-width and stroke-dasharray
GetStyle(style) ==
    LET pick(key, dflt) == IF HasKey(style, key) THEN StrOf(style.v[key]) ELSE dflt
    IN  IF ~Truthy(style) THEN << <<"transparent">>, <<"black">>, <<"2">>, << >> >>
        ELSE << pick("fill", <<"transparent">>), pick("stroke", <<"black">>),
                pick("strokeWidth", <<"2">>), pick("strokeDasharray", << >>) >>

\* style_props['fill'] = 'transparent', written into the shape's own style dict
ForcedFill(style) ==
    IF IsObj(style)
    THEN JObj([key \in DOMAIN style.v \cup {"fill"} |->
                 IF key = "fill" THEN W("transparent") ELSE style.v[key]])
    ELSE style

\* an element that leaves the rotation out of its transform
ShapeTokUnrotated(kind, name, attr, nums, style, transform, rotation) ==
    [Tok(kind, name, attr, nums, << >>) EXCEPT !.st = style, !.tr = transform]

ShapeTok(kind, name, attr, nums, style, transform, rotation) ==
    [Tok(kind, name, attr, nums, << >>) EXCEPT !.st = style, !.tr = transform, !.rot = rotation]

\* the points of a shape, offset by (x, y), doubled; << -1 >> when a point raises
PointsOf(points, x, y) ==
    FlatMap(LAMBDA pt : IF IsObj(pt) /\ Get(pt, "x", JNum(0)).k = "num"
                           /\ Get(pt, "y", JNum(0)).k = "num"
                        THEN << 2 * (Get(pt, "x", JNum(0)).v + x),
                                2 * (Get(pt, "y", JNum(0)).v + y) >>
                        ELSE << -1 >>,
            Iter(points))
PointsRaise(points) ==
    IterRaises(points)
    \/ \E i \in 1..Len(Iter(points)) :
         LET pt == Iter(points)[i]
         IN  ~IsObj(pt) \/ Get(pt, "x", JNum(0)).k # "num" \/ Get(pt, "y", JNum(0)).k # "num"

\* shape['value'][0].get("text", "") if isinstance(shape['value'], list) else str(shape['value'])
ShapeText(shape) ==
    IF HasKey(shape, "value") /\ Truthy(shape.v["value"])
    THEN IF IsList(shape.v["value"]) THEN Get(First(shape.v["value"]), "text", EmptyStr)
         ELSE JStr(StrOf(shape.v["value"]))
    ELSE EmptyStr

Min(a, b) == IF a < b THEN a ELSE b
Max(a, b) == IF a > b THEN a ELSE b

\* the symbols that turn with w >= h, and those that turn with w > h
SymbolsGe == {W("Resistor"), W("Inductor"), W("Semicircle")}
SymbolsGt == {W("Capacitor"), JStr(<<"Polarized Capacitor">>), JStr(<<"DC Voltage Source">>)}

ProcessShape(shape, parentX, parentY) ==
    LET shapeType == Get(shape, "type", W("unknown"))
        given     == Get(shape, "style", EmptyObj)
        styleProps == IF shapeType = W("PythagorasSVG") THEN ForcedFill(given) ELSE given
        style     == GetStyle(styleProps)
        xJ        == Get(shape, "x", JNum(0))
        yJ        == Get(shape, "y", JNum(0))
        wJ        == Get(shape, "w", JNum(0))
        hJ        == Get(shape, "h", JNum(0))
        x         == xJ.v + parentX
        y         == yJ.v + parentY
        w         == wJ.v
        h         == hJ.v
        base      == OrElse(Get(shape, "transform", EmptyStr), EmptyStr)
        rotation  == Get(shape, "rotation", JNull)
        rot       == IF Truthy(rotation) THEN << rotation.v, 2 * x + w, 2 * y + h >> ELSE << >>
        tr        == IF Truthy(rotation) THEN LStrip(base.v) ELSE Strip(base.v)
        El(kind, name, attr, nums) == ShapeTok(kind, name, attr, nums, style, tr, rot)
        marker    == IF Truthy(Get(given, "markerEnd", JNull)) THEN "arrowhead" ELSE ""
        points    == Get(shape, "points", EmptyList)
        name      == Get(shape, "SVGShapeName", EmptyStr)
        text      == ShapeText(shape)
        inner     == Get(shape, "shapes", EmptyObj)
        children  == IF IsList(inner) THEN inner.v
                     ELSE FlatMap(LAMBDA key : IF HasKey(inner, key) THEN << inner.v[key] >>
                                                ELSE << >>, ChildKeys)
    IN  IF ~Truthy(shape) THEN << >>
        ELSE IF ~IsObj(shape) \/ (Truthy(given) /\ ~IsObj(given)) THEN << RaiseTok >>
        ELSE IF shapeType = W("PythagorasSVG") /\ ~IsObj(given) THEN << RaiseTok >>
        ELSE IF {xJ.k, yJ.k, wJ.k, hJ.k} # {"num"} \/ ~IsStr(base) THEN << RaiseTok >>
        ELSE IF Truthy(rotation) /\ rotation.k # "num" THEN << RaiseTok >>
        ELSE IF shapeType = W("Line")
        THEN LET pts == Get(shape, "points", JList(<< EmptyObj, EmptyObj >>))
             IN  IF pts.k \notin {"list", "str", "obj"} THEN << RaiseTok >>
                 ELSE IF ~IsList(pts) THEN (IF Len(Iter(pts)) >= 2 THEN << RaiseTok >> ELSE << >>)
                 ELSE IF Len(pts.v) < 2 THEN << >>
                 ELSE IF PointsRaise(JList(SubSeq(pts.v, 1, 2))) THEN << RaiseTok >>
                 ELSE << El("void", "line", marker, PointsOf(JList(SubSeq(pts.v, 1, 2)), x, y)) >>
        ELSE IF shapeType = W("Connection")
        THEN IF ~Truthy(points) THEN << >>
             ELSE IF PointsRaise(points) THEN << RaiseTok >>
             ELSE << El("void", "polyline", marker, PointsOf(points, x, y)) >>
        ELSE IF shapeType \in {W("Square"), W("Rect")}
        THEN << El("void", "rect", "", << 2 * x, 2 * y, 2 * w, 2 * h >>) >>
        ELSE IF shapeType = W("Circle")
        THEN << El("void", "circle", "", << 2 * x + w, 2 * y + h, Min(w, h) >>) >>
        ELSE IF shapeType = W("Ellipse")
        THEN << El("void", "ellipse", "", << 2 * x + w, 2 * y + h, w, h >>) >>
        ELSE IF shapeType = W("Path")
        THEN LET d == Get(shape, "d", EmptyStr)
             IN  IF ~Truthy(d) THEN << >>
                 ELSE IF ~IsStr(d) THEN << RaiseTok >>
                 ELSE << [El("void", "path", "translate", << 2 * x, 2 * y >>) EXCEPT !.s = d.v] >>
        ELSE IF shapeType \in {W("Polygon"), W("Polyline")}
        THEN IF ~Truthy(points) THEN << >>
             ELSE IF PointsRaise(points) THEN << RaiseTok >>
             ELSE << El("void", IF shapeType = W("Polygon") THEN "polygon" ELSE "polyline",
                        IF shapeType = W("Polyline") THEN marker ELSE "",
                        PointsOf(points, x, y)) >>
        ELSE IF shapeType = W("Text")
        THEN IF ~IsStr(text) THEN << RaiseTok >>
             ELSE IF BlankOrBraces(text.v) THEN << >>
             ELSE << [El("open", "text", "central", << 2 * x, 2 * y + h >>)
                        EXCEPT !.st = << StrOf(Get(given, "fontSize", W("14px"))),
                                         StrOf(Get(given, "textAnchor", W("start"))) >>],
                     Text(text.v), Close("text") >>
        ELSE IF shapeType = W("Math")
        THEN IF ~IsStr(text) THEN << RaiseTok >>
             ELSE IF BlankOrBraces(text.v) \/ Call("CleanMathExpression", <<text.v>>) = << >> THEN << >>
             ELSE LET cleaned == Call("CleanMathExpression", <<text.v>>)
                      mathW   == IF w > 0 THEN w ELSE Max(50, Len(cleaned) * 9)
                      mathH   == IF h > 0 THEN h ELSE 30
                  IN  << [El("open", "foreignObject", "", << 2 * x, 2 * y, 2 * mathW, 2 * mathH >>)
                            EXCEPT !.st = << >>],
                         Tok("open", "xhtml:div", "", << >>, StrOf(Get(given, "fontSize", W("14px")))),
                         Open("span", "equation-line"),
                         Text(<<Backtick>> \o cleaned \o <<Backtick>>),
                         Close("span"), Close("xhtml:div"), Close("foreignObject") >>
        ELSE IF shapeType = W("PythagorasSVG")
        THEN LET horizontal == IF name \in SymbolsGe THEN w >= h ELSE w > h
                 turn == IF horizontal THEN "horizontal" ELSE "vertical"
                 plus == [El("open", "text", turn, << 2 * x, 2 * y, 2 * w, 2 * h >>)
                            EXCEPT !.st = << >>]
             IN  IF IsRaise(name) THEN << RaiseTok >>
                 ELSE IF name \in SymbolsGe \cup SymbolsGt
                 THEN << [El("void", "path", turn, << 2 * x, 2 * y, 2 * w, 2 * h >>)
                            EXCEPT !.s = name.v] >>
                      \o (IF name \in SymbolsGt \ {W("Capacitor")}
                          THEN << plus, Text(<<"+">>), Close("text") >> ELSE << >>)
                 ELSE << El("void", "rect", "", << 2 * x, 2 * y, 2 * w, 2 * h >>),
                         [El("open", "text", "central", << 2 * x + w, 2 * y + h >>)
                            EXCEPT !.st = << >>],
                         Raw(StrOf(name)), Close("text") >>
        ELSE IF shapeType = W("IsocelesTriangle")
        THEN << El("void", "polygon", "",
                   << 2 * x + w, 2 * y, 2 * x, 2 * (y + h), 2 * (x + w), 2 * (y + h) >>) >>
        ELSE IF shapeType \in {W("CompoundShape"), W("Group")}
        THEN IF ~IsList(inner) /\ ~IsObj(inner) THEN << RaiseTok >>
             ELSE FlatMap(LAMBDA innerShape : Call("ProcessShape", <<innerShape, x, y>>), children)
        ELSE << >>


\* the shapes of a drawing after processShape has run over them: the style
\* dict of every PythagorasSVG shape it reached holds fill 'transparent'
RECURSIVE ShapeAfter(_)
ShapeAfter(shape) ==
    LET shapeType == Get(shape, "type", W("unknown"))
        inner     == Get(shape, "shapes", EmptyObj)
    IN  IF ~IsObj(shape) \/ ~Truthy(shape) THEN shape
        ELSE IF shapeType = W("PythagorasSVG") /\ HasKey(shape, "style")
        THEN JObj([shape.v EXCEPT !["style"] = ForcedFill(shape.v["style"])])
        ELSE IF shapeType \in {W("CompoundShape"), W("Group")} /\ IsList(inner)
        THEN JObj([shape.v EXCEPT !["shapes"] =
                     JList([i \in 1..Len(inner.v) |-> ShapeAfter(inner.v[i])])])
        ELSE IF shapeType \in {W("CompoundShape"), W("Group")} /\ HasKey(shape, "shapes")
                /\ IsObj(inner)
        THEN JObj([shape.v EXCEPT !["shapes"] =
                     JObj([key \in DOMAIN inner.v |-> ShapeAfter(inner.v[key])])])
        ELSE shape

DefsToks ==
    << Open("defs", ""), Open("marker", "arrow-end"), Void("polygon", ""), Close("marker"),
       Open("marker", "arrowhead"), Void("path", ""), Close("marker"), Close("defs") >>

\* f"{viewBox.get('x', 0)} {viewBox.get('y', 0)} {viewBox.get('w', 100)} {viewBox.get('h', 100)}"
ViewBoxStr(viewBox) ==
    StrOf(Get(viewBox, "x", JNum(0))) \o <<" ">> \o StrOf(Get(viewBox, "y", JNum(0))) \o <<" ">>
      \o StrOf(Get(viewBox, "w", JNum(100))) \o <<" ">> \o StrOf(Get(viewBox, "h", JNum(100)))

ProcessDrawingBlock(block) ==
    LET settings == OrElse(Get(Get(block, "block", EmptyObj), "settings", EmptyObj),
                           Get(block, "content", EmptyObj))
        viewBox  == Get(settings, "viewBox", EmptyObj)
        shapes   == OrElse(Get(Get(block, "block", EmptyObj), "shapes", EmptyList),
                           Get(Get(block, "content", EmptyObj), "shapes", EmptyList))
        body     == FlatMap(LAMBDA shape :
                              IF Truthy(shape) /\ Truthy(Get(shape, "type", JNull))
                              THEN Call("ProcessShape", <<shape, 0, 0>>) ELSE << >>,
                            Iter(shapes))
    IN  Try(IF IsRaise(viewBox) \/ IsRaise(shapes) THEN << RaiseTok >>
            ELSE IF ~Truthy(viewBox) \/ ~Truthy(shapes) THEN << >>
            ELSE IF IterRaises(shapes) \/ \E i \in 1..Len(Iter(shapes)) : ~IsObj(Iter(shapes)[i])
            THEN << RaiseTok >>
            ELSE IF ~IsObj(viewBox) THEN << RaiseTok >>
            ELSE << Tok("open", "svg", "viewBox", << >>, ViewBoxStr(viewBox)) >>
                 \o DefsToks \o body \o << Close("svg") >>,
            << >>)

ProcessCircuitBlock(block) ==
    LET given    == Get(block, "block", EmptyObj)
        data     == IF Truthy(given) THEN given ELSE Get(block, "content", EmptyObj)
        settings == Get(data, "settings", EmptyObj)
        shapes   == Get(data, "shapes", EmptyList)
    IN  Try(IF ~IsObj(data) THEN << RaiseTok >>
            ELSE IF ~Truthy(settings) /\ ~Truthy(shapes) THEN << >>
            ELSE IF shapes.k \notin {"list", "str", "obj"} THEN << RaiseTok >>
            ELSE Call("ProcessDrawingBlock", <<JObj([block |-> JObj([settings |-> settings,
                                                          shapes |-> shapes])])>>),
            << >>)


(***************************************************************************)
(* Accounting tables: determine_cell_alignment, process_accounting_table.  *)
(***************************************************************************)
Cent == "U+00A2"
Pound == "U+00A3"
Yen == "U+00A5"
Euro == "U+20AC"

D == Cls(Digit)
D13 == Cat(<<D, Opt(D), Opt(D)>>)
Thousands == Star(Cat(<<Lit(","), D, D, D>>))
\* ^[\$\¢\£\¥\€]?[-]?\s*\d{1,3}(?:,\d{3})*(?:\.\d{2})?$
CurrencyPattern ==
    Cat(<<Bol, Opt(Cls({"$", Cent, Pound, Yen, Euro})), Opt(Lit("-")), Star(Cls(Space)),
          D13, Thousands, Opt(Cat(<<Lit("."), D, D>>)), Eol>>)
\* ^\d+(?:\.\d+)?%$
PercentPattern == Cat(<<Bol, Plus(D), Opt(Cat(<<Lit("."), Plus(D)>>)), Lit("%"), Eol>>)
\* ^[-]?\d{1,3}(?:,\d{3})*(?:\.\d+)?$
NumberPattern ==
    Cat(<<Bol, Opt(Lit("-")), D13, Thousands, Opt(Cat(<<Lit("."), Plus(D)>>)), Eol>>)
\* ^\d{1,2}[\/\-]\d{1,2}[\/\-]\d{2,4}$
DatePattern ==
    Cat(<<Bol, D, Opt(D), Cls({"/", "-"}), D, Opt(D), Cls({"/", "-"}),
          D, D, Opt(D), Opt(D), Eol>>)

Chars(word) ==
    CASE word = "date" -> <<"d","a","t","e">>
      [] word = "account" -> <<"a","c","c","o","u","n","t">>
      [] word = "name" -> <<"n","a","m","e">>
      [] word = "debit" -> <<"d","e","b","i","t">>
      [] word = "credit" -> <<"c","r","e","d","i","t">>
      [] word = "transaction" -> <<"t","r","a","n","s","a","c","t","i","o","n">>
      [] word = "amount" -> <<"a","m","o","u","n","t">>
      [] word = "description" -> <<"d","e","s","c","r","i","p","t","i","o","n">>
      [] word = "category" -> <<"c","a","t","e","g","o","r","y">>
      [] word = "effect" -> <<"e","f","f","e","c","t">>
      [] word = "liabilities" -> <<"l","i","a","b","i","l","i","t","i","e","s">>
      [] word = "assets" -> <<"a","s","s","e","t","s">>
      [] word = "equity" -> <<"e","q","u","i","t","y">>
header_keywords ==
    {"date", "account", "name", "debit", "credit", "transaction", "amount",
     "description", "category", "effect", "liabilities", "assets", "equity"}

LowerOf(ch) ==
    LET up == <<"A","B","C","D","E","F","G","H","I","J","K","L","M",
                "N","O","P","Q","R","S","T","U","V","W","X","Y","Z">>
        lo == <<"a","b","c","d","e","f","g","h","i","j","k","l","m",
                "n","o","p","q","r","s","t","u","v","w","x","y","z">>
    IN  IF ch \in Upper THEN lo[CHOOSE i \in 1..26 : up[i] = ch] ELSE ch
ToLower(s) == [i \in 1..Len(s) |-> LowerOf(s[i])]

\* the first non-blank text of the paragraphs of a 'doc' value, stripped;
\* [raise |-> TRUE] when the walk raises
DocFirstText(cellValue) ==
    LET paras == Get(cellValue, "content", JList(<<EmptyObj>>))
        TextOf(item) ==
            LET ty == Get(item, "type", JNull)
                tx == Get(item, "text", EmptyStr)
            IN  IF IsRaise(ty) THEN Raise
                ELSE IF ty # W("text") THEN EmptyStr
                ELSE IF ~IsStr(tx) THEN Raise
                ELSE IF BlankOrBraces(tx.v) THEN EmptyStr ELSE JStr(Strip(tx.v))
        \* the inner loop: the first non-blank text, a raise before it wins
        RunOf(para) ==
            LET items == Iter(Get(para, "content", JList(<<EmptyObj>>)))
                f[i \in 0..Len(items)] ==
                    IF i = 0 THEN EmptyStr
                    ELSE IF f[i - 1] # EmptyStr THEN f[i - 1] ELSE TextOf(items[i])
            IN  IF IsRaise(Get(para, "type", JNull)) THEN Raise
                ELSE IF Get(para, "type", JNull) # W("paragraph") THEN EmptyStr
                ELSE IF IterRaises(Get(para, "content", JList(<<EmptyObj>>))) THEN Raise
                ELSE f[Len(items)]
        g[i \in 0..Len(Iter(paras))] ==
            IF i = 0 THEN EmptyStr
            ELSE IF g[i - 1] # EmptyStr THEN g[i - 1] ELSE RunOf(Iter(paras)[i])
    IN  IF IterRaises(paras) THEN Raise ELSE g[Len(Iter(paras))]

\* determine_cell_alignment: the cell's markup and its alignment
DetermineCellAlignment(cellValue, mode) ==
    LET found   == IF IsObj(cellValue) /\ HasKey(cellValue, "type")
                      /\ cellValue.v["type"] = W("doc")
                   THEN DocFirstText(cellValue)
                   ELSE IF IsStr(cellValue) THEN JStr(Strip(cellValue.v)) ELSE EmptyStr
        content == found.v
        cleaned == Call("CleanMathExpression", <<content>>)
        plain(align) == [toks |-> << Text(content) >>, align |-> align]
    IN  IF IsRaise(found) THEN [toks |-> << Text(StrOf(cellValue)) >>, align |-> "left"]
        ELSE IF content = << >> \/ content = <<"{", "}">> THEN [toks |-> << >>, align |-> "left"]
        ELSE IF Call("IsMathematicalExpression", <<content>>) # "none" /\ cleaned # << >>
        THEN [toks |-> IF mode = "display"
                       THEN << Open("span", "equation-line"),
                               Raw(<<Backtick>> \o cleaned \o <<Backtick>>), Close("span") >>
                       ELSE << Open("span", "mhchem"), Raw(cleaned), Close("span") >>,
              align |-> "center"]
        ELSE IF Call("MatchAtStart", <<CurrencyPattern, content>>) \/ Call("MatchAtStart", <<PercentPattern, content>>)
                \/ Call("MatchAtStart", <<NumberPattern, content>>)
        THEN plain("right")
        ELSE IF Call("MatchAtStart", <<DatePattern, content>>) THEN plain("center")
        ELSE IF \E keyword \in header_keywords : Call("Search", <<Word(Chars(keyword)), ToLower(content)>>)
        THEN plain("center")
        ELSE plain("left")


\* the numbers of a finite set of naturals, ascending
RECURSIVE Sorted(_)
Sorted(S) == IF S = {} THEN << >>
             ELSE LET m == CHOOSE m \in S : \A n \in S : m <= n
                  IN  << m >> \o Sorted(S \ {m})

\* cell.get("style", {}).get("span", {}).get(key, 1)
SpanOf(cell, key) == Get(Get(Get(cell, "style", EmptyObj), "span", EmptyObj), key, JNum(1))

\* one th or td of an accounting table; << RaiseTok >> when reading the cell raises
AccountingCell(tag, cell, mode) ==
    LET value   == Get(cell, "value", EmptyStr)
        data    == Call("DetermineCellAlignment", <<value, mode>>)
        colspan == SpanOf(cell, "colSpan")
        rowspan == SpanOf(cell, "rowSpan")
    IN  IF IsRaise(value) \/ colspan.k # "num" \/ rowspan.k # "num" THEN << RaiseTok >>
        ELSE << Tok("open", tag, data.align, << colspan.v, rowspan.v >>, << >>) >>
             \o data.toks \o << Close(tag) >>

AccountingEntry(entry, mode) ==
    LET headers == Get(entry, "headerCells", EmptyObj)
        body    == Get(entry, "bodyCells", EmptyObj)
        allKeys == GridKeys(headers) \cup GridKeys(body)
        maxCol  == MaxOf({key[2] : key \in allKeys})
        headCols == Sorted({key[2] : key \in {k \in GridKeys(headers) : k[1] = 0}})
        bodyRows == Sorted({key[1] : key \in GridKeys(body)})
        head    == IF headCols = << >> THEN << >>
                   ELSE << Open("thead", ""), Open("tr", "") >>
                        \o FlatMap(LAMBDA col : Call("AccountingCell", <<"th", headers.v[<<0, col>>], mode>>),
                                   headCols)
                        \o << Close("tr"), Close("thead") >>
        Row(row) == << Tok("open", "tr", "table-row", <<row>>, << >>) >>
                    \o FlatMap(LAMBDA col :
                                 IF <<row, col>> \in GridKeys(body)
                                 THEN Call("AccountingCell", <<"td", body.v[<<row, col>>], mode>>)
                                 ELSE << Open("td", "empty-cell"), Close("td") >>,
                               [i \in 1..(maxCol + 1) |-> i - 1])
                    \o << Close("tr") >>
        rows    == IF bodyRows = << >> THEN << >>
                   ELSE << Open("tbody", "") >> \o FlatMap(Row, bodyRows) \o << Close("tbody") >>
    IN  IF IsRaise(headers) \/ IsRaise(body) THEN << RaiseTok >>
        ELSE IF {headers.k, body.k} \ {"grid", "obj"} # {} THEN << RaiseTok >>
        ELSE IF allKeys = {} THEN << >>
        ELSE head \o rows

\* a has_content that is set by every table
AlwaysHasContent(toks) == TRUE

\* has_content: some cell rendered to non-empty markup
CellHasContent(toks) ==
    \E i \in 1..(Len(toks) - 1) : toks[i].t = "open" /\ toks[i].n \in {"th", "td"}
                                   /\ toks[i + 1].t # "close"

ProcessAccountingTable(block, mode) ==
    LET given   == Get(block, "block", EmptyObj)
        data    == IF Truthy(given) THEN given ELSE Get(block, "content", EmptyObj)
        entries == Get(data, "entries", EmptyList)
        body    == FlatMap(LAMBDA entry : AccountingEntry(entry, mode), Iter(entries))
    IN  Try(IF IsRaise(given) \/ IsRaise(entries) THEN << RaiseTok >>
            ELSE IF ~Truthy(entries) THEN << >>
            ELSE IF IterRaises(entries) THEN << RaiseTok >>
            ELSE IF Raised(body) THEN << RaiseTok >>
            ELSE IF ~CellHasContent(body) THEN << >>
            ELSE << Open("div", "table-container"), Open("table", "accounting-table") >>
                 \o body \o << Close("table"), Close("div") >>,
            << >>)

\* a dispatch that takes every unsupported type for a TEXT block
DispatchUnknownAsText(block, blockType, mode) ==
    Call("ProcessTextBlock", <<block, W("TEXT"), mode>>)

(***************************************************************************)
(* process_block_enhanced and process_sqna_content_for_html.               *)
(***************************************************************************)
\* the dispatch of process_block_enhanced, inside its try
Dispatch(block, blockType, mode) ==
    CASE blockType \in {W("TEXT"), W("EXPLANATION")} -> Call("ProcessTextBlock", <<block, blockType, mode>>)
      [] blockType = W("EQUATION_RENDERER") -> Call("ProcessEquationBlock", <<block, mode>>)
      [] blockType = W("ACCOUNTING_TABLE")  -> Call("ProcessAccountingTable", <<block, mode>>)
      [] blockType = W("TABLE")             -> Call("ProcessGenericTable", <<block, mode>>)
      [] blockType = W("DRAWING")           -> Call("ProcessDrawingBlock", <<block>>)
      [] blockType = W("CIRCUIT")           -> Call("ProcessCircuitBlock", <<block>>)
      [] blockType = W("LIST")              -> Call("ProcessListBlock", <<block, mode>>)
      [] blockType = W("HTML")              -> Call("ProcessHtmlBlock", <<block>>)
      [] blockType = W("CODE_SNIPPET")      -> Call("ProcessCodeSnippet", <<block>>)
      [] blockType = W("IMAGE_UPLOAD")      -> Call("ProcessImageUpload", <<block>>)
      [] blockType = W("MATH_IN_TEXT")      -> Call("ProcessMathInTextBlock", <<block, mode>>)
      [] OTHER -> << >>

\* block.get("type", "UNKNOWN") stands before the try: on a block that is no
\* mapping the call raises
ProcessBlockEnhanced(block, mode) ==
    LET blockType == Get(block, "type", W("UNKNOWN"))
    IN  IF IsRaise(blockType) THEN << RaiseTok >>
        ELSE Try(Dispatch(block, blockType, mode), << >>)

\* the blocks rendered from the last one to the first
RenderBlocksBackwards(blocks, mode) ==
    FlatMap(LAMBDA block :
              LET processed == Call("ProcessBlockEnhanced", <<block, mode>>)
              IN  IF Raised(processed) THEN << RaiseTok >>
                  ELSE IF Blank(processed) THEN << >> ELSE processed,
            [i \in 1..Len(Iter(blocks)) |-> Iter(blocks)[Len(Iter(blocks)) + 1 - i]])

\* for block in blocks: processed = process_block_enhanced(block); if processed.strip(): out += processed
RenderBlocks(blocks, mode) ==
    FlatMap(LAMBDA block :
              LET processed == Call("ProcessBlockEnhanced", <<block, mode>>)
              IN  IF Raised(processed) THEN << RaiseTok >>
                  ELSE IF Blank(processed) THEN << >> ELSE processed,
            Iter(blocks))

\* a header that numbers the steps from zero
StepHeaderFromZero(i, total, title) ==
    << Open("div", "step-header"),
       Text(<<"Step ">> \o Digits(i - 1) \o <<" of ">> \o Digits(total)
            \o (IF title = << >> THEN << >> ELSE <<": ">> \o title)),
       Close("div") >>

StepHeader(i, total, title) ==
    << Open("div", "step-header"),
       Text(<<"Step ">> \o Digits(i) \o <<" of ">> \o Digits(total)
            \o (IF title = << >> THEN << >> ELSE <<": ">> \o title)),
       Close("div") >>

\* key in x: on an x that is no container it raises
InOf(key, j) == IF InRaises(j) THEN Raise ELSE IF HasKey(j, key) THEN JNum(1) ELSE JNum(0)

\* the body of the try of process_sqna_content_for_html
SqnaMarkup(contentObj, mode) ==
    LET sbs      == Get(contentObj, "stepByStep", JNull)
        hasSteps == IF InOf("stepByStep", contentObj) = JNum(1) THEN InOf("steps", sbs) ELSE JNum(0)
        steps    == sbs.v["steps"]
        StepHtml(i) ==
            LET step   == Iter(steps)[i]
                title  == Get(step, "title", EmptyStr)
                blocks == Get(step, "blocks", EmptyList)
                body   == Call("RenderBlocks", <<blocks, mode>>)
            IN  IF ~IsStr(title) THEN << RaiseTok >>
                ELSE IF ~Truthy(blocks) THEN << >>
                ELSE IF IterRaises(blocks) THEN << RaiseTok >>
                ELSE IF body = << >> THEN << >>
                ELSE StepHeader(i, Len(Iter(steps)), Strip(title.v)) \o body
        stepsHtml == IF hasSteps = JNum(1)
                     THEN IF IterRaises(steps) THEN << RaiseTok >>
                          ELSE FlatMap(StepHtml, [i \in 1..Len(Iter(steps)) |-> i])
                     ELSE << >>
        fa       == Get(contentObj, "finalAnswer", JNull)
        hasFinal == IF InOf("finalAnswer", contentObj) = JNum(1) THEN InOf("blocks", fa) ELSE JNum(0)
        faBlocks == Get(fa, "blocks", EmptyList)
        faBody   == Call("RenderBlocks", <<faBlocks, mode>>)
        faHtml   == IF hasFinal = JNum(1)
                    THEN IF IsRaise(faBlocks) \/ IterRaises(faBlocks) THEN << RaiseTok >>
                         ELSE IF Blank(faBody) /\ ~Raised(faBody) THEN << >>
                         ELSE << Open("div", "final-answer"), Open("h3", ""),
                                 Text(<<"Final Answer">>), Close("h3") >>
                              \o faBody \o << Close("div") >>
                    ELSE << >>
        flat     == IF InOf("blocks", contentObj) = JNum(1)
                    THEN IF IterRaises(contentObj.v["blocks"]) THEN << RaiseTok >>
                         ELSE Call("RenderBlocks", <<contentObj.v["blocks"], mode>>)
                    ELSE << >>
    IN  IF IsRaise(InOf("stepByStep", contentObj)) \/ IsRaise(hasSteps) \/ IsRaise(hasFinal)
        THEN << RaiseTok >>
        ELSE stepsHtml \o faHtml \o flat

\* the orchestrator without its try/except
ProcessSqnaUnguarded(contentObj, mode) == Call("SqnaMarkup", <<contentObj, mode>>)

ProcessSqnaContentForHtml(contentObj, mode) == Try(Call("SqnaMarkup", <<contentObj, mode>>), << >>)


(***************************************************************************)
(* The plain-text exporter, _convert_answer_to_clean_text.  Its output is  *)
(* the list text_content: one text token per appended line.  The strings   *)
(* its inner functions build are payload strings, Raise when they raise.   *)
(***************************************************************************)
Bullet == "U+2022"

\* the concatenation of strings, Raise when one of them is
ConcatJ(strs) ==
    IF \E i \in 1..Len(strs) : ~IsStr(strs[i]) THEN Raise
    ELSE JStr(FlatMap(LAMBDA str : str.v, strs))

\* $latex$ or $$latex$$ of a cleaned expression
Dollars(cleaned, n) ==
    Repeat("$", n) \o Call("ConvertAsciimathToLatexForCopy", <<cleaned>>) \o Repeat("$", n)

\* for mark in marks: wrap the text in its markdown
RECURSIVE MarkText(_, _, _)
MarkText(marks, chars, boldOnly) ==
    IF marks = << >> THEN JStr(chars)
    ELSE LET ty == Get(Head(marks), "type", JNull)
         IN  IF IsRaise(ty) THEN Raise
             ELSE MarkText(Tail(marks),
                           CASE ty = W("bold") -> <<"*", "*">> \o chars \o <<"*", "*">>
                             [] ty = W("italic") /\ ~boldOnly -> <<"*">> \o chars \o <<"*">>
                             [] ty = W("code") /\ ~boldOnly -> <<Backtick>> \o chars \o <<Backtick>>
                             [] OTHER -> chars,
                           boldOnly)

\* one text run of a paragraph (heading = FALSE) or of a heading
TextRunText(subItem, heading) ==
    LET text  == Get(subItem, "text", EmptyStr)
        marks == Get(subItem, "marks", EmptyList)
        mt    == Call("IsMathematicalExpression", <<text.v>>)
        shown == IF mt = "none" THEN text.v
                 ELSE Dollars(Call("CleanMathExpression", <<text.v>>),
                              IF mt = "display" /\ ~heading THEN 2 ELSE 1)
    IN  IF ~IsStr(text) THEN Raise
        ELSE IF BlankOrBraces(text.v) THEN EmptyStr
        ELSE IF IsRaise(marks) \/ IterRaises(marks) THEN Raise
        ELSE MarkText(Iter(marks), shown, heading)

ParagraphText(item) ==
    LET content == Get(item, "content", EmptyList)
        Piece(subItem) ==
            LET ty == Get(subItem, "type", JNull)
                mathText == Get(First(Get(subItem, "content", JList(<<EmptyObj>>))),
                                "text", EmptyStr)
            IN  IF IsRaise(ty) THEN Raise
                ELSE IF ty = W("text") THEN Call("TextRunText", <<subItem, FALSE>>)
                ELSE IF ty = W("inlineMath")
                     THEN IF CleanRaises(mathText) THEN Raise
                          ELSE JStr(Dollars(CleanOf(mathText), 1))
                ELSE IF ty = W("hardBreak") THEN JStr(<<"\n">>)
                ELSE EmptyStr
    IN  IF IsRaise(content) \/ IterRaises(content) THEN Raise
        ELSE ConcatJ([i \in 1..Len(Iter(content)) |-> Piece(Iter(content)[i])])

HeadingText(item) ==
    LET level   == Get(Get(item, "attrs", EmptyObj), "level", JNum(3))
        content == Get(item, "content", EmptyList)
        text    == ConcatJ([i \in 1..Len(Iter(content)) |->
                              IF IsRaise(Get(Iter(content)[i], "type", JNull)) THEN Raise
                              ELSE IF Get(Iter(content)[i], "type", JNull) = W("text")
                              THEN Call("TextRunText", <<Iter(content)[i], TRUE>>) ELSE EmptyStr])
    IN  IF IsRaise(level) \/ IsRaise(content) \/ IterRaises(content) \/ IsRaise(text) THEN Raise
        ELSE IF text.v = << >> THEN EmptyStr
        ELSE IF level.k # "num" THEN Raise
        ELSE JStr(Repeat("#", level.v) \o <<" ">> \o text.v)

\* "\n".join(lines)
JoinLines(lines) ==
    Concat([i \in 1..Len(lines) |-> (IF i > 1 THEN <<"\n">> ELSE << >>) \o lines[i]])

ListText(item) ==
    LET content == Get(item, "content", EmptyList)
        ItemText(listItem) ==
            LET subs == Get(listItem, "content", EmptyList)
                res  == [i \in 1..Len(Iter(subs)) |-> Call("ContentItemText", <<Iter(subs)[i]>>)]
            IN  IF IsRaise(subs) \/ IterRaises(subs) THEN Raise
                ELSE IF \E i \in 1..Len(res) : IsRaise(res[i]) THEN Raise
                ELSE JStr(FlatMap(LAMBDA r : Strip(r.v), res))
        texts == [i \in 1..Len(Iter(content)) |-> ItemText(Iter(content)[i])]
        kept  == SelectSeq(texts, LAMBDA tx : tx.v # << >>)
    IN  IF IterRaises(content) \/ \E i \in 1..Len(texts) : IsRaise(texts[i]) THEN Raise
        ELSE JStr(JoinLines([i \in 1..Len(kept) |->
                    (IF Get(item, "type", JNull) = W("bulletList") THEN <<Bullet, " ">>
                     ELSE Digits(i) \o <<".", " ">>) \o kept[i].v]))

\* the inner process_content_item(item, 0)
ContentItemText(item) ==
    LET ty == Get(item, "type", JNull)
    IN  IF IsRaise(ty) THEN Raise
        ELSE IF ty = W("paragraph") THEN ParagraphText(item)
        ELSE IF ty \in {W("bulletList"), W("orderedList")} THEN ListText(item)
        ELSE IF ty = W("heading") THEN HeadingText(item)
        ELSE EmptyStr

\* for item in editor content: result = process_content_item(item); if result: append
EditorLines(block) ==
    LET editor == EditorContentOf(block)
    IN  IF IsRaise(editor) \/ IterRaises(editor) THEN << RaiseTok >>
        ELSE FlatMap(LAMBDA item :
                       LET result == Call("ContentItemText", <<item>>)
                       IN  IF IsRaise(result) THEN << RaiseTok >>
                           ELSE IF result.v = << >> THEN << >> ELSE << Text(result.v) >>,
                     Iter(editor))


\* the text of a table cell in the text exporter: a payload string, Raise when it raises
CellText(cell) ==
    LET value == Get(cell, "value", EmptyStr)
        found == IF IsObj(value) /\ HasKey(value, "type") THEN FirstText(value)
                 ELSE IF Truthy(value) THEN JStr(StrOf(value)) ELSE EmptyStr
    IN  IF IsRaise(value) \/ IsRaise(found) THEN Raise
        ELSE IF ~Truthy(found) THEN found
        ELSE IF ~IsStr(found) THEN Raise
        ELSE IF Call("IsMathematicalExpression", <<found.v>>) # "none"
        THEN JStr(Dollars(Call("CleanMathExpression", <<found.v>>), 1))
        ELSE found

\* "| " + " | ".join(cells) + " |"
JoinBars(cells) ==
    Concat([i \in 1..Len(cells) |-> (IF i > 1 THEN <<" ", "|", " ">> ELSE << >>) \o cells[i]])
TableLine(cells) ==
    IF \E i \in 1..Len(cells) : ~IsStr(cells[i]) THEN << RaiseTok >>
    ELSE << Text(<<"|", " ">> \o JoinBars([i \in 1..Len(cells) |-> cells[i].v]) \o <<" ", "|">>) >>
Dashes(n) == TableLine([i \in 1..n |-> JStr(<<"-", "-", "-">>)])

\* the TABLE branch: the declared rows and columns, the cells under their own keys
TableText(blockData) ==
    LET cells   == Get(blockData, "cells", EmptyObj)
        columns == Get(blockData, "columns", JNum(0))
        rows    == Get(blockData, "rows", JNull)
        rowCount == IF rows.k = "num" THEN rows.v
                    ELSE IF rows.k = "null" THEN 0 ELSE Len(Iter(rows))
        Row(r)  == TableLine([c \in 1..columns.v |-> Call("CellText", <<GridGet(cells, r, c - 1, EmptyObj)>>)])
                   \o (IF r = 0 THEN Dashes(columns.v) ELSE << >>)
    IN  IF IsRaise(cells) \/ rows.k \notin {"num", "null", "list", "str", "obj"} THEN << RaiseTok >>
        ELSE IF rowCount = 0 THEN << >>
        ELSE IF columns.k # "num" \/ cells.k \notin {"grid", "obj"} THEN << RaiseTok >>
        ELSE FlatMap(Row, [i \in 1..rowCount |-> i - 1])

\* the ACCOUNTING_TABLE branch; header keys of one column are taken in row order
AccountingText(blockData) ==
    LET entries == Get(blockData, "entries", EmptyList)
        Entry(entry) ==
            LET headers == Get(entry, "headerCells", EmptyObj)
                body    == Get(entry, "bodyCells", EmptyObj)
                headKeys == FlatMap(LAMBDA col :
                                      [i \in 1..Len(Sorted({k[1] : k \in {q \in GridKeys(headers) : q[2] = col}}))
                                         |-> << Sorted({k[1] : k \in {q \in GridKeys(headers) : q[2] = col}})[i], col >>],
                                    Sorted({k[2] : k \in GridKeys(headers)}))
                headAll == [i \in 1..Len(headKeys) |-> Call("CellText", <<headers.v[headKeys[i]]>>)]
                headRow == SelectSeq(headAll, LAMBDA cell : IsRaise(cell) \/ Truthy(cell))
                Row(r)  == TableLine([c \in 1..(MaxOf({k[2] : k \in {q \in GridKeys(body) : q[1] = r}}) + 1)
                                        |-> Call("CellText", <<GridGet(body, r, c - 1, EmptyObj)>>)])
            IN  IF IsRaise(headers) \/ IsRaise(body) THEN << RaiseTok >>
                ELSE IF {headers.k, body.k} \ {"grid", "obj"} # {} THEN << RaiseTok >>
                ELSE (IF headRow = << >> THEN << >>
                      ELSE TableLine(headRow) \o Dashes(Len(headRow)))
                     \o FlatMap(Row, Sorted({k[1] : k \in GridKeys(body)}))
    IN  IF IsRaise(entries) \/ IterRaises(entries) THEN << RaiseTok >>
        ELSE FlatMap(Entry, Iter(entries))

\* the inner process_block: the lines it appends to text_content
ProcessBlockText(block) ==
    LET blockType == Get(block, "type", W("UNKNOWN"))
        label     == Get(block, "label", JNull)
        blockData == OrElse(Get(block, "block", EmptyObj), Get(block, "content", EmptyObj))
        lines     == Get(Get(block, "block", EmptyObj), "lines", EmptyList)
        codeText  == Get(First(Get(First(Get(Get(Get(block, "block", EmptyObj), "content", EmptyObj),
                                             "content", JList(<<EmptyObj>>))),
                                   "content", JList(<<EmptyObj>>))), "text", EmptyStr)
    IN  IF IsRaise(blockType) THEN << RaiseTok >>
        ELSE IF blockType \in {W("TEXT"), W("EXPLANATION")}
        THEN (IF Truthy(label) THEN << Text(<<"*", "*">> \o StrOf(label) \o <<"*", "*">>) >>
              ELSE << >>) \o Call("EditorLines", <<block>>)
        ELSE IF blockType = W("EQUATION_RENDERER")
        THEN IF IsRaise(lines) \/ IterRaises(lines) THEN << RaiseTok >>
             ELSE FlatMap(LAMBDA eqn :
                            IF ~IsObj(eqn) THEN << RaiseTok >>
                            ELSE LET latex == ConvertAsciimathToLatexForCopy(Call("CleanMathExpression", <<EquationString(eqn)>>))
                                 IN  IF latex = << >> THEN << >>
                                     ELSE << Text(<<"$", "$">> \o latex \o <<"$", "$">>) >>,
                          Iter(lines))
        ELSE IF blockType = W("CODE_SNIPPET")
        THEN IF ~IsStr(codeText) THEN << RaiseTok >>
             ELSE IF Strip(codeText.v) = << >> THEN << >>
             ELSE << Text(<<Backtick, Backtick, Backtick, "\n">> \o codeText.v
                          \o <<"\n", Backtick, Backtick, Backtick>>) >>
        ELSE IF blockType = W("LIST") THEN Call("EditorLines", <<block>>)
        ELSE IF blockType = W("ACCOUNTING_TABLE")
        THEN IF IsRaise(blockData) THEN << RaiseTok >> ELSE Call("AccountingText", <<blockData>>)
        ELSE IF blockType = W("TABLE")
        THEN IF IsRaise(blockData) THEN << RaiseTok >> ELSE Call("TableText", <<blockData>>)
        ELSE << >>

BlocksText(blocks) == FlatMap(LAMBDA block : Call("ProcessBlockText", <<block>>), Iter(blocks))

\* x[key]: on a dict without the key, or on no dict, it raises
Item(j, key) == IF HasKey(j, key) THEN j.v[key] ELSE Raise

\* the lines of the answer, blank lines dropped; none when anything raised
ConvertAnswerToCleanText(formattedAnswer) ==
    LET steps   == Item(Item(formattedAnswer, "stepByStep"), "steps")
        hasSteps == HasKey(formattedAnswer, "stepByStep")
        StepText(i) ==
            LET step  == Iter(steps)[i]
                title == Get(step, "title", EmptyStr)
            IN  IF ~IsStr(title) THEN << RaiseTok >>
                ELSE << Text(<<"*", "*", "Step ">> \o Digits(i)
                             \o (IF Strip(title.v) = << >> THEN << >>
                                 ELSE <<":", " ">> \o Strip(title.v))
                             \o <<"*", "*">>) >>
                     \o (IF IterRaises(Get(step, "blocks", EmptyList)) THEN << RaiseTok >>
                         ELSE BlocksText(Get(step, "blocks", EmptyList)))
                     \o << Text(<< >>) >>
        stepLines == IF hasSteps /\ Truthy(steps)
                     THEN IF IterRaises(steps) THEN << RaiseTok >>
                          ELSE FlatMap(StepText, [i \in 1..Len(Iter(steps)) |-> i])
                     ELSE << >>
        hasFinal == HasKey(formattedAnswer, "finalAnswer")
        faBlocks == Item(Item(formattedAnswer, "finalAnswer"), "blocks")
        faLines  == IF hasFinal /\ Truthy(faBlocks)
                    THEN << Text(<<"*", "*", "Final Answer", "*", "*">>) >>
                         \o (IF IterRaises(faBlocks) THEN << RaiseTok >> ELSE BlocksText(faBlocks))
                    ELSE << >>
        anySteps == OrElse(Get(Get(formattedAnswer, "stepByStep", EmptyObj), "steps", JNull),
                           Get(Get(formattedAnswer, "finalAnswer", EmptyObj), "blocks", JNull))
        flat     == IF HasKey(formattedAnswer, "blocks")
                    THEN IF IsRaise(anySteps) THEN << RaiseTok >>
                         ELSE IF Truthy(anySteps) THEN << >>
                         ELSE IF IterRaises(formattedAnswer.v["blocks"]) THEN << RaiseTok >>
                         ELSE BlocksText(formattedAnswer.v["blocks"])
                    ELSE << >>
        all      == stepLines \o faLines \o flat
    IN  Try(IF InRaises(formattedAnswer) THEN << RaiseTok >>
            ELSE IF (hasSteps /\ IsRaise(steps)) \/ (hasFinal /\ IsRaise(faBlocks))
            THEN << RaiseTok >>
            ELSE IF Raised(all) THEN << RaiseTok >>
            ELSE SelectSeq(all, LAMBDA line : Strip(line.s) # << >>),
            << >>)


(***************************************************************************)
(* json.dumps and json.loads over the characters of a string.  A key is    *)
(* one element between its quotes; the strings of the payloads hold no     *)
(* quote and no backslash.                                                 *)
(***************************************************************************)
Quote == "\""

RECURSIVE Dumps(_)
DumpsFields(f, keys) ==
    Concat([k \in 1..Len(keys) |->
              IF keys[k] \in DOMAIN f
              THEN (IF \E h \in 1..(k - 1) : keys[h] \in DOMAIN f THEN <<",", " ">> ELSE << >>)
                   \o << Quote, keys[k], Quote, ":", " " >> \o Dumps(f[keys[k]])
              ELSE << >>])
DumpsItems(l) ==
    Concat([k \in 1..Len(l) |-> (IF k > 1 THEN <<",", " ">> ELSE << >>) \o Dumps(l[k])])
\* the keys a payload dict is written in
DumpKeys == <<"stepByStep", "steps", "finalAnswer", "title", "blocks", "type", "text", "latex",
              "listType", "items", "content", "label">>
Dumps(j) ==
    CASE j.k = "str"  -> <<Quote>> \o j.v \o <<Quote>>
      [] j.k = "num"  -> Digits(j.v)
      [] j.k = "null" -> <<"n", "u", "l", "l">>
      [] j.k = "list" -> <<"[">> \o DumpsItems(j.v) \o <<"]">>
      [] j.k = "obj"  -> <<"{">> \o DumpsFields(j.v, DumpKeys) \o <<"}">>
      [] OTHER -> << >>

Failed == [ok |-> FALSE, val |-> JNull, next |-> 0]
Parsed(val, next) == [ok |-> TRUE, val |-> val, next |-> next]

SkipSpace(s, pos) ==
    IF pos > Len(s) THEN pos
    ELSE
    CHOOSE e \in pos..(Len(s) + 1) :
        /\ \A i \in pos..(e - 1) : s[i] \in Space
        /\ e = Len(s) + 1 \/ s[e] \notin Space

\* the position of the next quote at or after pos, 0 when there is none
NextQuote(s, pos) ==
    IF \A i \in pos..Len(s) : s[i] # Quote THEN 0
    ELSE CHOOSE e \in pos..Len(s) : s[e] = Quote /\ \A i \in pos..(e - 1) : s[i] # Quote

DigitsEnd(s, pos) ==
    IF pos > Len(s) THEN pos
    ELSE
    CHOOSE e \in pos..(Len(s) + 1) :
        /\ \A i \in pos..(e - 1) : s[i] \in Digit
        /\ e = Len(s) + 1 \/ s[e] \notin Digit

RECURSIVE NumberOf(_)
NumberOf(ds) ==
    IF ds = << >> THEN 0
    ELSE 10 * NumberOf(SubSeq(ds, 1, Len(ds) - 1))
         + (CHOOSE n \in 0..9 : Digits(n) = << ds[Len(ds)] >>)

\* the dict of a sequence of << key, value >> pairs, a later pair winning
ObjOf(pairs) ==
    JObj([key \in {pairs[i][1] : i \in 1..Len(pairs)} |->
            pairs[CHOOSE i \in 1..Len(pairs) :
                    /\ pairs[i][1] = key
                    /\ \A n \in 1..Len(pairs) : pairs[n][1] = key => n <= i][2]])

RECURSIVE ParseValue(_, _), ParseMembers(_, _, _), ParseElements(_, _, _)
ParseValue(s, at) ==
    LET pos == SkipSpace(s, at)
    IN  IF pos > Len(s) THEN Failed
        ELSE IF s[pos] = "{"
        THEN IF SkipSpace(s, pos + 1) <= Len(s) /\ s[SkipSpace(s, pos + 1)] = "}"
             THEN Parsed(EmptyObj, SkipSpace(s, pos + 1) + 1)
             ELSE ParseMembers(s, pos + 1, << >>)
        ELSE IF s[pos] = "["
        THEN IF SkipSpace(s, pos + 1) <= Len(s) /\ s[SkipSpace(s, pos + 1)] = "]"
             THEN Parsed(EmptyList, SkipSpace(s, pos + 1) + 1)
             ELSE ParseElements(s, pos + 1, << >>)
        ELSE IF s[pos] = Quote
        THEN IF NextQuote(s, pos + 1) = 0 THEN Failed
             ELSE Parsed(JStr(SubSeq(s, pos + 1, NextQuote(s, pos + 1) - 1)),
                         NextQuote(s, pos + 1) + 1)
        ELSE IF s[pos] \in Digit
        THEN Parsed(JNum(NumberOf(SubSeq(s, pos, DigitsEnd(s, pos) - 1))), DigitsEnd(s, pos))
        ELSE IF pos + 3 <= Len(s) /\ SubSeq(s, pos, pos + 3) = <<"n", "u", "l", "l">>
        THEN Parsed(JNull, pos + 4)
        ELSE Failed
ParseMembers(s, at, pairs) ==
    LET pos   == SkipSpace(s, at)
        close == NextQuote(s, pos + 1)
        colon == SkipSpace(s, close + 1)
        value == ParseValue(s, colon + 1)
        after == SkipSpace(s, value.next)
    IN  IF pos > Len(s) \/ s[pos] # Quote \/ close # pos + 2 THEN Failed
        ELSE IF colon > Len(s) \/ s[colon] # ":" THEN Failed
        ELSE IF ~value.ok \/ after > Len(s) THEN Failed
        ELSE IF s[after] = "}" THEN Parsed(ObjOf(Append(pairs, << s[pos + 1], value.val >>)), after + 1)
        ELSE IF s[after] = ","
        THEN ParseMembers(s, after + 1, Append(pairs, << s[pos + 1], value.val >>))
        ELSE Failed
ParseElements(s, at, items) ==
    LET value == ParseValue(s, at)
        after == SkipSpace(s, value.next)
    IN  IF ~value.ok \/ after > Len(s) THEN Failed
        ELSE IF s[after] = "]" THEN Parsed(JList(Append(items, value.val)), after + 1)
        ELSE IF s[after] = "," THEN ParseElements(s, after + 1, Append(items, value.val))
        ELSE Failed

\* json.loads(s): the value, or Raise for JSONDecodeError
Loads(s) ==
    LET r == ParseValue(s, 1)
    IN  IF r.ok /\ SkipSpace(s, r.next) > Len(s) THEN r.val ELSE Raise


(***************************************************************************)
(* The normalizer: _create_editor_content, _process_block_to_structured,   *)
(* _create_blocks_from_nested, format_answer_content.                      *)
(***************************************************************************)
TextParagraph(textJ) ==
    JObj([type |-> W("paragraph"),
          content |-> JList(<< JObj([type |-> W("text"), text |-> textJ]) >>)])
EditorBlock(editor) ==
    JObj([editorContentState |-> JObj([content |-> editor])])

\* the editor content of a block: a list, Raise when building it raises
CreateEditorContent(blockType, blockContent) ==
    LET text   == OrElse(Get(blockContent, "text", EmptyStr), JStr(StrOf(blockContent)))
        latex  == OrElse(Get(blockContent, "latex", EmptyStr), JStr(StrOf(blockContent)))
        kind   == Get(blockContent, "listType", W("unordered"))
        items  == OrElse(Get(blockContent, "items", EmptyList),
                         JList(<< JStr(StrOf(blockContent)) >>))
        kept   == SelectSeq(Iter(items), LAMBDA item : ~BlankOrBraces(item.v))
    IN  IF blockType \in {W("TEXT"), W("EXPLANATION")}
        THEN IF ~IsStr(text) THEN Raise
             ELSE IF BlankOrBraces(text.v) THEN EmptyList
             ELSE JList(<< TextParagraph(text) >>)
        ELSE IF blockType = W("EQUATION_RENDERER")
        THEN IF ~IsStr(latex) THEN Raise
             ELSE IF BlankOrBraces(latex.v) THEN EmptyList
             ELSE JList(<< JObj([type |-> W("paragraph"),
                                 content |-> JList(<< JObj([type |-> W("inlineMath"),
                                     content |-> JList(<< JObj([text |-> latex]) >>)]) >>)]) >>)
        ELSE IF blockType = W("LIST")
        THEN IF ~IsStr(kind) \/ IsRaise(items) \/ IterRaises(items) THEN Raise
             ELSE IF \E i \in 1..Len(Iter(items)) : ~IsStr(Iter(items)[i]) THEN Raise
             ELSE IF kept = << >> THEN EmptyList
             ELSE JList(<< JObj([type |-> IF kind \in {W("unordered"), W("UNORDERED")}
                                          THEN W("bulletList") ELSE W("orderedList"),
                                 content |-> JList([i \in 1..Len(kept) |->
                                     JObj([type |-> W("listItem"),
                                           content |-> JList(<< TextParagraph(kept[i]) >>)])])]) >>)
        ELSE EmptyList

\* the structured block of a payload block: << >> when it is dropped, one
\* block when it is kept, << Raise >> when building it raises
StructuredBlock(block, label) ==
    LET blockType == Get(block, "type", W("UNKNOWN"))
        given     == Get(block, "content", EmptyObj)
        loaded    == IF IsStr(given) THEN Call("Loads", <<given.v>>) ELSE given
        content   == IF IsRaise(loaded) THEN given ELSE loaded
        editor    == Call("CreateEditorContent", <<blockType, content>>)
    IN  IF IsRaise(blockType) THEN << Raise >>
        ELSE IF IsStr(given) /\ IsRaise(loaded) /\ BlankOrBraces(given.v) THEN << >>
        ELSE IF ~Truthy(content) THEN << >>
        ELSE IF IsRaise(editor) THEN << Raise >>
        ELSE IF ~Truthy(editor) THEN << >>
        ELSE << JObj([type |-> blockType, content |-> content, block |-> EditorBlock(editor),
                      label |-> IF blockType = W("EXPLANATION") THEN label ELSE JNull,
                      raw |-> block]) >>

StepLabel == JStr(<<"Step-by-step explanation">>)
FinalLabel == JStr(<<"Final Answer">>)

\* the structured blocks of the steps, or of the final answer, in order
StepsStructured(steps) ==
    FlatMap(LAMBDA step :
              IF IsRaise(Get(step, "blocks", EmptyList)) \/ IterRaises(Get(step, "blocks", EmptyList))
              THEN << Raise >>
              ELSE FlatMap(LAMBDA block : Call("StructuredBlock", <<block, StepLabel>>),
                           Iter(Get(step, "blocks", EmptyList))),
            Iter(steps))
BlocksStructured(blocks, label) ==
    FlatMap(LAMBDA block : Call("StructuredBlock", <<block, label>>), Iter(blocks))

HasRaise(seq) == \E i \in 1..Len(seq) : IsRaise(seq[i])

CreateBlocksFromNested(parsedBody) ==
    LET sbs    == Item(parsedBody, "stepByStep")
        steps  == Get(sbs, "steps", EmptyList)
        fromSteps == IF InOf("stepByStep", parsedBody) = JNum(1) /\ InOf("steps", sbs) = JNum(1)
                     THEN IF IterRaises(steps) THEN << Raise >> ELSE StepsStructured(steps)
                     ELSE << >>
        fa     == Item(parsedBody, "finalAnswer")
        faBlocks == Get(fa, "blocks", EmptyList)
        fromFinal == IF InOf("finalAnswer", parsedBody) = JNum(1) /\ InOf("blocks", fa) = JNum(1)
                     THEN IF IterRaises(faBlocks) THEN << Raise >>
                          ELSE BlocksStructured(faBlocks, FinalLabel)
                     ELSE << >>
    IN  IF IsRaise(InOf("stepByStep", parsedBody)) THEN EmptyList
        ELSE IF InOf("stepByStep", parsedBody) = JNum(1) /\ IsRaise(InOf("steps", sbs)) THEN EmptyList
        ELSE IF InOf("finalAnswer", parsedBody) = JNum(1) /\ IsRaise(InOf("blocks", fa)) THEN EmptyList
        ELSE IF HasRaise(fromSteps \o fromFinal) THEN EmptyList
        ELSE JList(fromSteps \o fromFinal)

Minimal == JObj([text |-> EmptyStr, html |-> EmptyStr, blocks |-> EmptyList])

Structured(blocks, explanations, text, html, stepByStep, finalAnswer) ==
    JObj([blocks |-> blocks, explanation_blocks |-> explanations, text |-> text, html |-> html,
          stepByStep |-> stepByStep, finalAnswer |-> finalAnswer])
NoSteps == JObj([steps |-> EmptyList])
NoFinal == JObj([blocks |-> EmptyList])

\* a block holding one paragraph of text
PlainBlock(blockType, content, text) ==
    JObj([type |-> blockType, content |-> content,
          block |-> EditorBlock(JList(<< TextParagraph(text) >>))])


NotFound == <<"<p>Answer not found</p>">>

\* the SqnaAnswers branch for a bodyV2 that carries the block tree itself
FormatDirect(bodyV2) ==
    LET sbs       == Item(bodyV2, "stepByStep")
        steps     == Get(sbs, "steps", EmptyList)
        fromSteps == IF HasKey(bodyV2, "stepByStep")
                     THEN IF IsRaise(steps) \/ IterRaises(steps) THEN << Raise >>
                          ELSE StepsStructured(steps)
                     ELSE << >>
        fa        == Item(bodyV2, "finalAnswer")
        faBlocks  == Get(fa, "blocks", EmptyList)
        fromFinal == IF HasKey(bodyV2, "finalAnswer")
                     THEN IF IsRaise(faBlocks) \/ IterRaises(faBlocks) THEN << Raise >>
                          ELSE BlocksStructured(faBlocks, FinalLabel)
                     ELSE << >>
        flat      == Get(bodyV2, "blocks", EmptyList)
        fromFlat  == IF HasKey(bodyV2, "blocks")
                     THEN IF IterRaises(flat) THEN << Raise >>
                          ELSE BlocksStructured(flat, FinalLabel)
                     ELSE << >>
        blocks    == fromSteps \o fromFinal \o fromFlat
    IN  IF HasRaise(blocks) THEN Minimal
        ELSE Structured(JList(blocks),
                        JList(SelectSeq(blocks, LAMBDA b : b.v["type"] = W("EXPLANATION"))),
                        EmptyStr, EmptyStr,
                        IF HasKey(bodyV2, "stepByStep") THEN sbs ELSE NoSteps,
                        IF HasKey(bodyV2, "finalAnswer") THEN fa ELSE NoFinal)

\* a SqnaAnswers branch that keeps the text and makes no block of it
FormatNestedWithoutBlock(bodyV2) ==
    Structured(EmptyList, EmptyList, Get(bodyV2, "text", EmptyStr), EmptyStr, NoSteps, NoFinal)

\* the SqnaAnswers branch for a bodyV2 whose text may hold the serialized tree
FormatNested(bodyV2) ==
    LET text   == Get(bodyV2, "text", EmptyStr)
        parsed == Call("Loads", <<text.v>>)
        asText == Structured(JList(<< PlainBlock(W("TEXT"), text, text) >>), EmptyList,
                             text, EmptyStr, NoSteps, NoFinal)
        keyed  == {InOf("stepByStep", parsed), InOf("finalAnswer", parsed), InOf("blocks", parsed)}
    IN  IF IsRaise(text) THEN Minimal
        ELSE IF ~IsStr(text) \/ Strip(text.v) = << >> \/ Head(Strip(text.v)) # "{"
        THEN Structured(EmptyList, EmptyList, text, EmptyStr, NoSteps, NoFinal)
        ELSE IF IsRaise(parsed) THEN asText
        ELSE IF Raise \in keyed THEN Minimal
        ELSE IF JNum(1) \in keyed
        THEN Structured(Call("CreateBlocksFromNested", <<parsed>>), EmptyList, text, EmptyStr,
                        Get(parsed, "stepByStep", NoSteps), Get(parsed, "finalAnswer", NoFinal))
        ELSE asText

FormatAnswerContent(answerData) ==
    LET byUuid   == Get(answerData, "questionByUuid", JNull)
        byLegacy == Get(answerData, "questionByLegacyId", JNull)
        question == IF Truthy(byUuid) THEN byUuid
                    ELSE IF Truthy(byLegacy) THEN byLegacy ELSE answerData
        display  == Get(question, "displayAnswers", EmptyObj)
        typename == Get(display, "__typename", EmptyStr)
        htmlAnswers == Get(display, "htmlAnswers", EmptyList)
        answerHtml  == Get(Get(First(htmlAnswers), "answerData", EmptyObj), "html", EmptyStr)
        answerText  == Get(Get(First(htmlAnswers), "answerData", EmptyObj), "text", EmptyStr)
        sqna     == Get(Get(display, "sqnaAnswers", EmptyObj), "answerData", EmptyList)
        bodyV2   == Get(First(sqna), "bodyV2", EmptyObj)
        mdText   == Get(display, "bodyMdText", EmptyStr)
        empty    == Structured(EmptyList, EmptyList, EmptyStr, EmptyStr, NoSteps, NoFinal)
    IN  IF IsStr(answerData)
        THEN IF Strip(answerData.v) = << >> \/ answerData.v = NotFound THEN Minimal
             ELSE JObj([text |-> answerData, html |-> answerData,
                        blocks |-> JList(<< PlainBlock(W("HTML"), answerData, answerData) >>)])
        ELSE IF ~IsObj(answerData) THEN Minimal
        ELSE IF ~Truthy(question) THEN Minimal
        ELSE IF IsRaise(display) \/ IsRaise(typename) THEN Minimal
        ELSE IF typename = W("HTMLAnswers")
        THEN IF IsRaise(htmlAnswers) THEN Minimal
             ELSE IF ~Truthy(htmlAnswers) THEN empty
             ELSE IF IsRaise(answerHtml) \/ IsRaise(answerText) \/ ~IsStr(answerHtml) THEN Minimal
             ELSE Structured(IF Strip(answerHtml.v) = << >> THEN EmptyList
                             ELSE JList(<< PlainBlock(W("HTML"), answerHtml, answerText) >>),
                             EmptyList, answerText, answerHtml, NoSteps, NoFinal)
        ELSE IF typename = W("SqnaAnswers")
        THEN IF IsRaise(sqna) THEN Minimal
             ELSE IF ~Truthy(sqna) THEN empty
             ELSE IF IsRaise(bodyV2) THEN Minimal
             ELSE IF IsObj(bodyV2) /\ (HasKey(bodyV2, "blocks") \/ HasKey(bodyV2, "stepByStep"))
             THEN Call("FormatDirect", <<bodyV2>>)
             ELSE Call("FormatNested", <<bodyV2>>)
        ELSE IF typename = W("TextAnswer")
        THEN IF ~IsStr(mdText) THEN Minimal
             ELSE IF Strip(mdText.v) = << >> THEN empty
             ELSE Structured(JList(<< PlainBlock(W("TEXT"), mdText, mdText) >>), EmptyList,
                             mdText, EmptyStr, NoSteps, NoFinal)
        ELSE empty

(***************************************************************************)
(* generate_html_string.  The question markup is a string whose elements   *)
(* are characters and whole img tags, ImgSrc with a src attribute and      *)
(* ImgBare without one.                                                    *)
(***************************************************************************)
ImgSrc == "<img src>"
ImgBare == "<img>"
ImgStyled == "<img src style>"

\* the question markup after its images are restyled or removed
QuestionMarkup(chars) ==
    FlatMap(LAMBDA ch : IF ch = ImgBare THEN << >>
                        ELSE IF ch = ImgSrc THEN << ImgStyled >> ELSE << ch >>,
            chars)

ErrorMessage == << Open("div", "error"), Raw(<<"Error formatting solution: ">>), Close("div") >>

GenerateHtmlString(questionDataObj) ==
    LET content == Get(questionDataObj, "content", EmptyObj)
        raw     == OrElse(OrElse(OrElse(Get(content, "body", JNull),
                                        Get(content, "textContent", JNull)),
                                 Get(content, "transcribedData", JNull)), EmptyStr)
        answer  == ProcessSqnaContentForHtml(Call("FormatAnswerContent", <<questionDataObj>>), "display")
    IN  Try(IF IsRaise(raw) \/ ~IsStr(raw) THEN << RaiseTok >>
            ELSE << Open("div", "solution-container"), Open("div", "mb-8"),
                    Open("h2", ""), Text(<<"Question">>), Close("h2"),
                    Open("div", "prose"), Raw(QuestionMarkup(raw.v)), Close("div"), Close("div"),
                    Open("div", ""), Open("h2", ""), Text(<<"Solution">>), Close("h2"),
                    Open("div", "solution-content") >>
                 \o answer
                 \o << Close("div"), Close("div"), Close("div") >>,
            ErrorMessage)

(***************************************************************************)
(* The functions Call reaches.                                             *)
(***************************************************************************)
Call(name, args) ==
    CASE name = "GenerateHtmlString" -> GenerateHtmlString(args[1])
      [] name = "ConvertAnswerToCleanText" -> ConvertAnswerToCleanText(args[1])
      [] name = "SqnaMarkup" -> SqnaMarkup(args[1], args[2])
      [] name = "ProcessSqnaContentForHtml" -> ProcessSqnaContentForHtml(args[1], args[2])
      [] name = "CleanMathExpression" -> CleanMathExpression(args[1])
      [] name = "ProcessGenericTable" -> ProcessGenericTable(args[1], args[2])
      [] name = "ProcessDrawingBlock" -> ProcessDrawingBlock(args[1])
      [] name = "FormatAnswerContent" -> FormatAnswerContent(args[1])
      [] name = "EditorLines" -> EditorLines(args[1])
      [] name = "RenderBlocks" -> RenderBlocks(args[1], args[2])
      [] name = "ConvertAsciimathToLatexForCopy" -> ConvertAsciimathToLatexForCopy(args[1])
      [] name = "SubFrom" -> SubFrom(args[1], args[2], args[3], args[4])
      [] name = "Search" -> Search(args[1], args[2])
      [] name = "MatchAtStart" -> MatchAtStart(args[1], args[2])
      [] name = "ProcessContentItem" -> ProcessContentItem(args[1], args[2])
      [] name = "StructuredBlock" -> StructuredBlock(args[1], args[2])
      [] name = "AccountingCell" -> AccountingCell(args[1], args[2], args[3])
      [] name = "IsMathematicalExpression" -> IsMathematicalExpression(args[1])
      [] name = "DetermineCellAlignment" -> DetermineCellAlignment(args[1], args[2])
      [] name = "ProcessBlockEnhanced" -> ProcessBlockEnhanced(args[1], args[2])
      [] name = "ProcessShape" -> ProcessShape(args[1], args[2], args[3])
      [] name = "ProcessBlockText" -> ProcessBlockText(args[1])
      [] name = "TextRun" -> TextRun(args[1], args[2], args[3])
      [] name = "ContentItemText" -> ContentItemText(args[1])
      [] name = "AccountingText" -> AccountingText(args[1])
      [] name = "GenericTableRows" -> GenericTableRows(args[1], args[2], args[3], args[4], args[5])
      [] name = "RecurseContent" -> RecurseContent(args[1], args[2])
      [] name = "CellText" -> CellText(args[1])
      [] name = "ProcessTextBlock" -> ProcessTextBlock(args[1], args[2], args[3])
      [] name = "FormatNested" -> FormatNested(args[1])
      [] name = "FormatDirect" -> FormatDirect(args[1])
      [] name = "ProcessMathInTextBlock" -> ProcessMathInTextBlock(args[1], args[2])
      [] name = "ProcessAccountingTable" -> ProcessAccountingTable(args[1], args[2])
      [] name = "CreateEditorContent" -> CreateEditorContent(args[1], args[2])
      [] name = "CreateBlocksFromNested" -> CreateBlocksFromNested(args[1])
      [] name = "TextRunText" -> TextRunText(args[1], args[2])
      [] name = "TableText" -> TableText(args[1])
      [] name = "ProcessEquationBlock" -> ProcessEquationBlock(args[1], args[2])
      [] name = "ProcessListBlock" -> ProcessListBlock(args[1], args[2])
      [] name = "ProcessCircuitBlock" -> ProcessCircuitBlock(args[1])
      [] name = "ProcessHtmlBlock" -> ProcessHtmlBlock(args[1])
      [] name = "ProcessCodeSnippet" -> ProcessCodeSnippet(args[1])
      [] name = "ProcessImageUpload" -> ProcessImageUpload(args[1])
      [] name = "MathSpan" -> MathSpan(args[1], args[2], args[3])
      [] name = "ProcessParagraph" -> ProcessParagraph(args[1], args[2])
      [] name = "ProcessHeading" -> ProcessHeading(args[1], args[2])
      [] name = "ExtractCellData" -> ExtractCellData(args[1])
      [] name = "Loads" -> Loads(args[1])

(***************************************************************************)
(* The calls of the engine as state machines.  A machine takes its input   *)
(* in its initial state and each action is one call of the code; the       *)
(* variables a machine does not use keep their idle values.                *)
(***************************************************************************)
MaxSiblings == 2
MaxTreeBlocks == 2
MaxRows == 2
MaxCols == 2
MaxShapes == 2

VARIABLES pc, expr, cleaned, recleaned, document, block, bodyTree, encoding,
          questionDataObj, formatted, html, text, mathText, mathType, history,
          contentObj,
          mode,
          given, svgs,
          nesting,
          requests, frames, returned, overlapped
vars == << pc, expr, cleaned, recleaned, document, block, bodyTree, encoding,
           questionDataObj, formatted, html, text, mathText, mathType, history,
           contentObj,
           mode,
           given, svgs,
           nesting,
           requests, frames, returned, overlapped >>
\* the variables of the calls of is_mathematical_expression
classifierVars == << mathText, mathType, history >>
\* the variable of the calls of the orchestrators on a content object
orchestratorVars == << contentObj >>
\* the mode of a call of process_block_enhanced
modeVars == << mode >>
\* the drawing as it was given, and the outputs of the calls on it
redrawVars == << given, svgs >>
\* the leaf and the ancestors of the drawing of a nested shape
nestVars == << nesting >>
\* the concurrent calls on the shared instance: their arguments, their local variables, their state and result, and whether two calls have run at once
callVars == << requests, frames, returned, overlapped >>

\* the sequences over S of length n at most
SeqsUpTo(S, n) == UNION {[1..k -> S] : k \in 0..n}

NoDocument == [step |-> << >>, final |-> << >>, flat |-> << >>]
IdleClean   == expr = << >> /\ cleaned = << >> /\ recleaned = << >>
IdleDoc     == document = NoDocument
IdleBlock   == block = JNull
IdlePayload == bodyTree = JNull /\ encoding = "none" /\ questionDataObj = JNull
                 /\ formatted = JNull
IdleOutput  == html = << >> /\ text = << >>
IdleClassifier == mathText = << >> /\ mathType = "none" /\ history = << >>
IdleOrchestrator == contentObj = JNull
IdleMode == mode = "display"
IdleRedraw == given = JNull /\ svgs = << >>
IdleNest == nesting = << >>
IdleCalls == requests = << >> /\ frames = << >> /\ returned = << >> /\ overlapped = FALSE

\* s holds sub as a run of consecutive elements
Contains(s, sub) == \E i \in 1..(Len(s) - Len(sub) + 1) : SubSeq(s, i, i + Len(sub) - 1) = sub

(***************************************************************************)
(* SpecClean: clean_math_expression applied to an expression, and then to  *)
(* its own result.                                                         *)
(***************************************************************************)
ExprChars == {" ", Backtick, "x", "2", "/", "^", "(", "$"}

InitClean ==
    /\ pc = "start"
    /\ expr \in SeqsUpTo(ExprChars, MaxExprLen)
    /\ cleaned = << >> /\ recleaned = << >>
    /\ IdleDoc /\ IdleBlock /\ IdlePayload /\ IdleOutput
    /\ IdleClassifier
    /\ IdleOrchestrator
    /\ IdleMode
    /\ IdleRedraw
    /\ IdleNest
    /\ IdleCalls

CleanOnce ==
    /\ pc = "start"
    /\ cleaned' = Call("CleanMathExpression", <<expr>>)
    /\ pc' = "cleaned"
    /\ UNCHANGED << expr, recleaned, document, block, bodyTree, encoding,
                    questionDataObj, formatted, html, text, classifierVars, orchestratorVars, modeVars, redrawVars, nestVars, callVars >>

CleanAgain ==
    /\ pc = "cleaned"
    /\ recleaned' = Call("CleanMathExpression", <<cleaned>>)
    /\ pc' = "recleaned"
    /\ UNCHANGED << expr, cleaned, document, block, bodyTree, encoding,
                    questionDataObj, formatted, html, text, classifierVars, orchestratorVars, modeVars, redrawVars, nestVars, callVars >>

NextClean == CleanOnce \/ CleanAgain
SpecClean == InitClean /\ [][NextClean]_vars

\* C1: clean_math_expression is idempotent: cleaning the cleaned expression
\* again gives the cleaned expression.
C1_CleanIdempotent == pc = "recleaned" => recleaned = cleaned


(***************************************************************************)
(* Blocks of an answer, as the payload carries them.                       *)
(***************************************************************************)
TextBlock(chars) ==
    JObj([type |-> W("TEXT"), block |-> EditorBlock(JList(<< TextParagraph(JStr(chars)) >>))])
LabelledBlock(label, chars) ==
    JObj([type |-> W("EXPLANATION"), label |-> W(label),
          block |-> EditorBlock(JList(<< TextParagraph(JStr(chars)) >>))])
EquationBlock(left, operator, right) ==
    JObj([type |-> W("EQUATION_RENDERER"),
          block |-> JObj([lines |-> JList(<< JObj([left |-> JStr(left), operator |-> JStr(operator),
                                                   right |-> JStr(right)]) >>)])])
ListBlock(items) ==
    JObj([type |-> W("LIST"),
          block |-> EditorBlock(JList(<< JObj([type |-> W("bulletList"),
                                               content |-> JList(items)]) >>))])
\* a table cell holding one paragraph of text
TableCell(chars) ==
    JObj([value |-> JObj([type |-> W("doc"),
                          content |-> JList(<< TextParagraph(JStr(chars)) >>)])])
TableBlock(rows, columns, cells, rowSpans, columnSpans) ==
    JObj([type |-> W("TABLE"),
          block |-> JObj([rows |-> JNum(rows), columns |-> JNum(columns), cells |-> JGrid(cells),
                          rowSpans |-> JGrid(rowSpans), columnSpans |-> JGrid(columnSpans)])])

\* well-formed blocks with content
GoodText == TextBlock(<<"a", "b">>)
\* malformed blocks: sub-fields missing, content of the wrong type, no mapping
MissingFields == JObj([type |-> W("TEXT")])
WrongTyped    == JObj([type |-> W("TEXT"), block |-> JNum(5)])
NotMapping    == JNum(5)
MalformedBlocks == {MissingFields, WrongTyped, NotMapping}
\* well-formed blocks whose content is empty
BlankText     == TextBlock(<<" ">>)
BracesText    == TextBlock(<<"{", "}">>)
NoItemsList   == ListBlock(<< >>)
BlankTable    == TableBlock(1, 1, (<<0, 0>> :> TableCell(<<" ">>)), << >>, << >>)
BlankEquation == EquationBlock(<< >>, << >>, << >>)
BlankLabelled == LabelledBlock("Note", <<" ">>)
EmptyBlocks   == {BlankText, BracesText, NoItemsList, BlankTable, BlankEquation, BlankLabelled}

BlockPool == {GoodText} \cup MalformedBlocks \cup EmptyBlocks

(***************************************************************************)
(* SpecDoc: a document of blocks in a step, in the final answer and in the *)
(* flat list is rendered by process_sqna_content_for_html and exported by  *)
(* _convert_answer_to_clean_text.                                          *)
(***************************************************************************)
\* the content object that carries the blocks of doc in the sections of shape
ContentWith(doc, shape) ==
    JObj([key \in {k \in {"stepByStep", "finalAnswer", "blocks"} :
                     CASE k = "stepByStep"  -> shape.step # << >>
                       [] k = "finalAnswer" -> shape.final # << >>
                       [] OTHER             -> shape.flat # << >>} |->
            CASE key = "stepByStep"  -> JObj([steps |-> JList(<< JObj([blocks |-> JList(doc.step)]) >>)])
              [] key = "finalAnswer" -> JObj([blocks |-> JList(doc.final)])
              [] OTHER               -> JList(doc.flat)])
\* the content object of a document: a section is present when it has blocks
ContentObj(doc) == ContentWith(doc, doc)

StepText  == <<"C", "o", "m", "p", "u", "t", "e", " ", "t", "h", "e", " ",
               "c", "u", "r", "r", "e", "n", "t", ".">>
FinalText == <<"I", " ", "=", " ", "2", "A">>
\* one step with a TEXT block and the equation I = V/R, and a final answer
Scenario ==
    [step  |-> << TextBlock(StepText), EquationBlock(<<"I">>, <<"=">>, <<"V", "/", "R">>) >>,
     final |-> << TextBlock(FinalText) >>,
     flat  |-> << >>]

\* the documents of MaxSiblings blocks at most
Documents ==
    UNION {[step : [1..n[1] -> BlockPool], final : [1..n[2] -> BlockPool],
            flat : [1..n[3] -> BlockPool]] :
           n \in {m \in (0..MaxSiblings) \X (0..MaxSiblings) \X (0..MaxSiblings) :
                    m[1] + m[2] + m[3] <= MaxSiblings}}

InitDoc ==
    /\ pc = "start"
    /\ document \in Documents \cup {Scenario}
    /\ IdleClean /\ IdleBlock /\ IdlePayload /\ IdleOutput
    /\ IdleClassifier
    /\ IdleOrchestrator
    /\ IdleMode
    /\ IdleRedraw
    /\ IdleNest
    /\ IdleCalls

RenderDocument ==
    /\ pc = "start"
    /\ html' = Call("ProcessSqnaContentForHtml", << ContentObj(document), "display" >>)
    /\ pc' = "rendered"
    /\ UNCHANGED << expr, cleaned, recleaned, document, block, bodyTree, encoding,
                    questionDataObj, formatted, text, classifierVars, orchestratorVars, modeVars, redrawVars, nestVars, callVars >>

ExportDocument ==
    /\ pc = "rendered"
    /\ text' = Call("ConvertAnswerToCleanText", << ContentObj(document) >>)
    /\ pc' = "exported"
    /\ UNCHANGED << expr, cleaned, recleaned, document, block, bodyTree, encoding,
                    questionDataObj, formatted, html, classifierVars, orchestratorVars, modeVars, redrawVars, nestVars, callVars >>

NextDoc == RenderDocument \/ ExportDocument
SpecDoc == InitDoc /\ [][NextDoc]_vars

AllBlocks(doc) == doc.step \o doc.final \o doc.flat
Keep(blocks, Test(_)) == SelectSeq(blocks, Test)
WellFormed(b) == b \notin MalformedBlocks
WithoutMalformed(doc) ==
    [step  |-> Keep(doc.step, WellFormed), final |-> Keep(doc.final, WellFormed),
     flat  |-> Keep(doc.flat, WellFormed)]

\* C2: a malformed block contributes the empty string and its well-formed
\* siblings are still rendered: the HTML of a document is the HTML of the
\* same sections without the malformed blocks.
C2_MalformedBlockContributesNothing ==
    pc \in {"rendered", "exported"} =>
        html = ProcessSqnaContentForHtml(ContentWith(WithoutMalformed(document), document), "display")

\* C5: a block whose content is empty contributes the empty string to the
\* HTML and no line to the text: a flat list of such blocks has no HTML and
\* no text.
C5_EmptyBlockContributesNothing ==
    (/\ pc = "exported"
     /\ document.step = << >> /\ document.final = << >> /\ document.flat # << >>
     /\ \A i \in 1..Len(document.flat) : document.flat[i] \in EmptyBlocks)
    => html = << >> /\ text = << >>

CountOf(toks, Test(_)) == Cardinality({i \in 1..Len(toks) : Test(toks[i])})
\* the position of the only token that passes the test
TheOne(toks, Test(_)) == CHOOSE i \in 1..Len(toks) : Test(toks[i])
FracForm == <<Backtick, "I", " ", "=", " ", "f", "r", "a", "c", "{", "V", "}", "{", "R", "}", Backtick>>

\* C9: the HTML of the scenario holds exactly one step header "Step 1 of 1",
\* exactly one escaped paragraph with the step text, exactly one equation-line
\* span with the cleaned fraction form of I = V/R, and exactly one
\* final-answer section, which holds I = 2A.
C9_ScenarioHtml ==
    (document = Scenario /\ pc \in {"rendered", "exported"}) =>
        LET IsHeader(tok) == tok = Open("div", "step-header")
            IsSpan(tok)   == tok = Open("span", "equation-line")
            IsFinal(tok)  == tok = Open("div", "final-answer")
            IsStepText(tok) == tok.t = "text" /\ tok.s = StepText
            header == TheOne(html, IsHeader)
            para   == TheOne(html, IsStepText)
            span   == TheOne(html, IsSpan)
            final  == TheOne(html, IsFinal)
        IN  /\ CountOf(html, IsHeader) = 1
            /\ html[header + 1] = Text(<<"Step ", "1", " of ", "1">>)
            /\ CountOf(html, IsStepText) = 1
            /\ html[para - 1] = Open("p", "") /\ html[para + 1] = Close("p")
            /\ CountOf(html, IsSpan) = 1
            /\ html[span + 1] = Raw(FracForm) /\ html[span + 2] = Close("span")
            /\ CountOf(html, IsFinal) = 1
            /\ header < para /\ para < span /\ span < final
            /\ \E i \in (final + 1)..Len(html) : Contains(html[i].s, FinalText)
            /\ html[Len(html)] = Close("div")

\* the scenario has been rendered
C9_ScenarioRendered == document = Scenario /\ pc = "rendered" /\ html # << >>

Line(chars) == Text(chars)
\* C10: the text of the scenario holds the line **Step 1**, then the line
\* $$I = \frac{V}{R}$$ with one backslash before frac, then the line
\* **Final Answer**, and next to it a line holding I = 2A.
C10_ScenarioText ==
    (document = Scenario /\ pc = "exported") =>
        \E i, j, k \in 1..Len(text) :
            /\ i < j /\ j < k /\ k < Len(text)
            /\ text[i] = Line(<<"*", "*", "Step ", "1", "*", "*">>)
            /\ text[j] = Line(<<"$", "$", "I", " ", "=", " ", "\\", "f", "r", "a", "c",
                                "{", "V", "}", "{", "R", "}", "$", "$">>)
            /\ text[k] = Line(<<"*", "*", "Final Answer", "*", "*">>)
            /\ Contains(text[k + 1].s, FinalText)

\* the scenario has been exported
C10_ScenarioExported == document = Scenario /\ pc = "exported" /\ text # << >>


(***************************************************************************)
(* SpecNorm: a payload is normalized by format_answer_content and rendered *)
(* by generate_html_string.  The payload carries a tree of blocks in       *)
(* bodyV2 itself, or serialized in bodyV2.text, or it is one of the odd    *)
(* payloads.                                                               *)
(***************************************************************************)
ContentBlock(blockType, field, chars) ==
    JObj([type |-> W(blockType), content |-> JObj([f \in {field} |-> JStr(chars)])])
ContentPool ==
    {ContentBlock("TEXT", "text", <<"a", "b">>), ContentBlock("EXPLANATION", "text", <<"c">>),
     ContentBlock("EQUATION_RENDERER", "latex", <<"x">>), ContentBlock("TEXT", "text", <<" ">>),
     NotMapping}
Trees == [step : SeqsUpTo(ContentPool, MaxTreeBlocks), final : SeqsUpTo(ContentPool, MaxTreeBlocks)]
NoTree == [step |-> << >>, final |-> << >>]
TreeOf(tree) ==
    JObj([stepByStep  |-> JObj([steps |-> JList(<< JObj([blocks |-> JList(tree.step)]) >>)]),
          finalAnswer |-> JObj([blocks |-> JList(tree.final)])])

QuestionContent == JObj([body |-> JStr(<<"Q">>)])
Answers(typename, field, answers) ==
    JObj(("__typename" :> W(typename)) @@ (field :> answers))
SqnaPayload(bodyV2) ==
    JObj([content |-> QuestionContent,
          displayAnswers |-> Answers("SqnaAnswers", "sqnaAnswers",
                                     JObj([answerData |-> JList(<< JObj([bodyV2 |-> bodyV2]) >>)]))])
TreeEncodings == {"direct", "nested"}
OddEncodings == {"html", "markdown", "numberDisplay", "numberPayload", "numberContent", "numberBody"}
PayloadOf(tree, enc) ==
    CASE enc = "direct" -> SqnaPayload(TreeOf(tree))
      [] enc = "nested" -> SqnaPayload(JObj([text |-> JStr(Dumps(TreeOf(tree)))]))
      [] enc = "html" ->
            JObj([content |-> QuestionContent,
                  displayAnswers |-> Answers("HTMLAnswers", "htmlAnswers",
                      JList(<< JObj([answerData |-> JObj([html |-> JStr(<<"h">>),
                                                          text |-> JStr(<<"t">>)])]) >>))])
      [] enc = "markdown" ->
            JObj([content |-> QuestionContent,
                  displayAnswers |-> Answers("TextAnswer", "bodyMdText", JStr(<<"m">>))])
      [] enc = "numberDisplay" -> JObj([content |-> QuestionContent, displayAnswers |-> JNum(5)])
      [] enc = "numberPayload" -> JNum(5)
      [] enc = "numberContent" -> JObj([content |-> JNum(5)])
      [] OTHER -> JObj([content |-> JObj([body |-> JNum(5)])])

InitNorm ==
    /\ pc = "start"
    /\ \/ bodyTree \in Trees /\ encoding \in TreeEncodings
       \/ bodyTree = NoTree /\ encoding \in OddEncodings
    /\ questionDataObj = PayloadOf(bodyTree, encoding)
    /\ formatted = JNull
    /\ IdleClean /\ IdleDoc /\ IdleBlock /\ IdleOutput
    /\ IdleClassifier
    /\ IdleOrchestrator
    /\ IdleMode
    /\ IdleRedraw
    /\ IdleNest
    /\ IdleCalls

Format ==
    /\ pc = "start"
    /\ formatted' = Call("FormatAnswerContent", << questionDataObj >>)
    /\ pc' = "formatted"
    /\ UNCHANGED << expr, cleaned, recleaned, document, block, bodyTree, encoding,
                    questionDataObj, html, text, classifierVars, orchestratorVars, modeVars, redrawVars, nestVars, callVars >>

Generate ==
    /\ pc = "formatted"
    /\ html' = Call("GenerateHtmlString", << questionDataObj >>)
    /\ pc' = "generated"
    /\ UNCHANGED << expr, cleaned, recleaned, document, block, bodyTree, encoding,
                    questionDataObj, formatted, text, classifierVars, orchestratorVars, modeVars, redrawVars, nestVars, callVars >>

NextNorm == Format \/ Generate
SpecNorm == InitNorm /\ [][NextNorm]_vars

\* the statements of generate_html_string itself raise: the payload or its
\* content is no mapping, or the question body is no string
TopLevelThrows(q) ==
    \/ ~IsObj(q)
    \/ ~IsObj(Get(q, "content", EmptyObj))
    \/ "body" \in DOMAIN Get(q, "content", EmptyObj).v /\ ~IsStr(Get(q, "content", EmptyObj).v["body"])
HasNotMapping(tree) ==
    \E i \in 1..Len(tree.step \o tree.final) : (tree.step \o tree.final)[i] = NotMapping
\* the tokens of the solution section of a page
SolutionSection(page) ==
    LET open == CHOOSE i \in 1..Len(page) : page[i] = Open("div", "solution-content")
    IN  SubSeq(page, open + 1, Len(page) - 3)

\* C3: generate_html_string returns a page for every payload and never
\* raises; the page is the error message only when the top-level call itself
\* throws; a failure of the normalization or of the rendering leaves the
\* container with an empty solution section.
C3_FallbackOnlyAtTopLevel ==
    pc = "generated" =>
        /\ html # << >> /\ ~Raised(html)
        /\ (html = ErrorMessage) <=> TopLevelThrows(questionDataObj)
        /\ ~TopLevelThrows(questionDataObj) =>
             /\ html[1] = Open("div", "solution-container")
             /\ CountOf(html, LAMBDA tok : tok = Open("div", "solution-content")) = 1
             /\ SubSeq(html, Len(html) - 2, Len(html)) = << Close("div"), Close("div"), Close("div") >>
             /\ encoding = "numberDisplay" => SolutionSection(html) = << >>
             /\ HasNotMapping(bodyTree) => SolutionSection(html) = << >>
             /\ encoding = "html" => SolutionSection(html) # << >>

\* a page has been generated for the serialized tree that holds a block
\* that is no mapping
C3_RenderingFailureAbsorbed ==
    /\ pc = "generated" /\ encoding = "nested" /\ HasNotMapping(bodyTree)
    /\ formatted.v["stepByStep"] = TreeOf(bodyTree).v["stepByStep"]
    /\ html # ErrorMessage

\* C4: the payload that carries the tree in bodyV2 and the payload that
\* carries it serialized in bodyV2.text are normalized to equal results.
C4_EncodingsNormalizeEqual ==
    (pc = "formatted" /\ encoding = "direct") =>
        formatted = FormatAnswerContent(PayloadOf(bodyTree, "nested"))


(***************************************************************************)
(* SpecTable: a generic TABLE block is rendered by process_generic_table   *)
(* and exported by the TABLE branch of _convert_answer_to_clean_text.      *)
(***************************************************************************)
GridOf(rows, columns) == (0..(rows - 1)) \X (0..(columns - 1))
\* the text of the cell of row r and column c
CellName(r, c) == <<"r">> \o Digits(r) \o <<"c">> \o Digits(c)
CellKinds == {"text", "blank", "absent"}
CellsOf(kinds) ==
    [pos \in {p \in DOMAIN kinds : kinds[p] # "absent"} |->
        IF kinds[pos] = "text" THEN TableCell(CellName(pos[1], pos[2])) ELSE TableCell(<<" ">>)]
\* no span, or the span of one cell, inside the grid the block declares
NoSpan == [at |-> <<0, 0>>, rowspan |-> 1, colspan |-> 1]
SpansOf(rows, columns) ==
    {NoSpan} \cup
    {s \in [at : GridOf(rows, columns), rowspan : 1..rows, colspan : 1..columns] :
        /\ s.rowspan * s.colspan > 1
        /\ s.at[1] + s.rowspan <= rows /\ s.at[2] + s.colspan <= columns}
SpanMap(span, n) == IF n > 1 THEN (span.at :> JNum(n)) ELSE << >>
TableOf(rows, columns, kinds, span) ==
    TableBlock(rows, columns, CellsOf(kinds), SpanMap(span, span.rowspan), SpanMap(span, span.colspan))
TableBlocks ==
    UNION {{TableOf(d[1], d[2], kinds, span) :
                kinds \in [GridOf(d[1], d[2]) -> CellKinds], span \in SpansOf(d[1], d[2])} :
           d \in (1..MaxRows) \X (1..MaxCols)}

InitTable ==
    /\ pc = "start"
    /\ block \in TableBlocks
    /\ IdleClean /\ IdleDoc /\ IdlePayload /\ IdleOutput
    /\ IdleClassifier
    /\ IdleOrchestrator
    /\ IdleMode
    /\ IdleRedraw
    /\ IdleNest
    /\ IdleCalls

RenderTable ==
    /\ pc = "start"
    /\ html' = Call("ProcessGenericTable", << block, "display" >>)
    /\ pc' = "rendered"
    /\ UNCHANGED << expr, cleaned, recleaned, document, block, bodyTree, encoding,
                    questionDataObj, formatted, text, classifierVars, orchestratorVars, modeVars, redrawVars, nestVars, callVars >>

ExportTable ==
    /\ pc = "rendered"
    /\ text' = Call("ConvertAnswerToCleanText", << JObj([blocks |-> JList(<< block >>)]) >>)
    /\ pc' = "exported"
    /\ UNCHANGED << expr, cleaned, recleaned, document, block, bodyTree, encoding,
                    questionDataObj, formatted, html, classifierVars, orchestratorVars, modeVars, redrawVars, nestVars, callVars >>

NextTable == RenderTable \/ ExportTable
SpecTable == InitTable /\ [][NextTable]_vars

\* what the table block in hand declares
DeclaredRows    == block.v["block"].v["rows"].v
DeclaredColumns == block.v["block"].v["columns"].v
DeclaredCells   == block.v["block"].v["cells"].v
DeclaredSpans(field) == block.v["block"].v[field].v
\* every position of the declared grid holds a cell with text
FullOfText ==
    /\ DOMAIN DeclaredCells = GridOf(DeclaredRows, DeclaredColumns)
    /\ \A pos \in DOMAIN DeclaredCells : DeclaredCells[pos] = TableCell(CellName(pos[1], pos[2]))
SpanAt(field, pos) == IF pos \in DOMAIN DeclaredSpans(field) THEN DeclaredSpans(field)[pos].v ELSE 1
\* the sum over the cells of rowspan x colspan - 1; one cell at most has a span
SpannedAway ==
    LET spanning == {pos \in GridOf(DeclaredRows, DeclaredColumns) :
                        SpanAt("rowSpans", pos) * SpanAt("columnSpans", pos) > 1}
    IN  IF spanning = {} THEN 0
        ELSE LET pos == CHOOSE p \in spanning : TRUE
             IN  SpanAt("rowSpans", pos) * SpanAt("columnSpans", pos) - 1
IsCellOpen(tok) == tok.t = "open" /\ tok.n \in {"th", "td"}

\* C6: the number of th and td cells process_generic_table emits is rows x
\* cols minus the sum over the spanning cells of rowspan x colspan - 1.
C6_SpanConservation ==
    (pc \in {"rendered", "exported"} /\ FullOfText) =>
        CountOf(html, IsCellOpen) = DeclaredRows * DeclaredColumns - SpannedAway

\* the rows of a rendered table: in each row the texts of its cells
HtmlRowsOf(toks) ==
    LET opens == SelectSeq([i \in 1..Len(toks) |-> i],
                           LAMBDA i : toks[i].t = "open" /\ toks[i].n = "tr")
        EndOf(i) == CHOOSE e \in i..Len(toks) :
                        /\ toks[e] = Close("tr")
                        /\ \A m \in i..(e - 1) : toks[m] # Close("tr")
        CellsIn(i) == SelectSeq([m \in 1..(EndOf(i) - i) |-> i + m],
                                LAMBDA m : IsCellOpen(toks[m]))
    IN  [r \in 1..Len(opens) |->
            [c \in 1..Len(CellsIn(opens[r])) |->
                LET next == toks[CellsIn(opens[r])[c] + 1]
                IN  IF next.t = "raw" THEN Strip(next.s) ELSE << >>]]
\* the parts of a line between its bars
RECURSIVE SplitBars(_)
SplitBars(chars) ==
    IF \A i \in 1..Len(chars) : chars[i] # "|" THEN << chars >>
    ELSE LET bar == CHOOSE i \in 1..Len(chars) :
                        chars[i] = "|" /\ \A m \in 1..(i - 1) : chars[m] # "|"
         IN  << SubSeq(chars, 1, bar - 1) >> \o SplitBars(SubSeq(chars, bar + 1, Len(chars)))
\* the rows of an exported table: the lines but the delimiter line, in each the texts of its cells
TextRowsOf(lines) ==
    LET kept == SelectSeq(lines, LAMBDA line : ~Contains(line.s, <<"-", "-", "-">>))
    IN  [r \in 1..Len(kept) |->
            LET parts == SplitBars(kept[r].s)
            IN  [c \in 1..(Len(parts) - 2) |-> Strip(parts[c + 1])]]

\* C7: the text exporter and the HTML renderer agree on the structure of a
\* table: the same rows, the same cells in a row, the same text in a cell.
C7_TextAndHtmlAgreeOnTable ==
    (pc = "exported" /\ FullOfText /\ SpannedAway = 0) =>
        HtmlRowsOf(html) = TextRowsOf(text)


(***************************************************************************)
(* SpecDrawing: a drawing of shapes in a view box is rendered by           *)
(* process_drawing_block, as a DRAWING block and as a CIRCUIT block.       *)
(***************************************************************************)
ShapeOf(shapeType, x, y, w, h) ==
    [type |-> W(shapeType), x |-> JNum(x), y |-> JNum(y), w |-> JNum(w), h |-> JNum(h)]
Symbol(name) == JObj(ShapeOf("PythagorasSVG", 1, 1, 4, 2) @@ [SVGShapeName |-> name])
RectShape    == JObj(ShapeOf("Rect", 0, 0, 2, 1))
TextShape    == JObj(ShapeOf("Text", 1, 0, 2, 2)
                     @@ [value |-> JList(<< JObj([text |-> JStr(<<"a", "<", "b">>)]) >>)])
\* a shape of a type the renderer does not know
BlobShape    == JObj(ShapeOf("Blob", 0, 0, 1, 1))
GroupShape   == JObj(ShapeOf("Group", 1, 1, 0, 0) @@ [shapes |-> JList(<< RectShape >>)])
Resistor     == Symbol(W("Resistor"))
Polarized    == Symbol(JStr(<<"Polarized Capacitor">>))
\* symbols of names the renderer does not know
Widget       == Symbol(W("Widget"))
Bracketed    == Symbol(JStr(<<"<", "g", ">">>))
ShapePool ==
    {RectShape, TextShape, BlobShape, GroupShape, Resistor, Polarized, Widget, Bracketed}
ViewBoxes == {[x |-> JNum(0), y |-> JNum(0), w |-> JNum(40), h |-> JNum(20)],
              [x |-> JNum(1), y |-> JNum(2), w |-> JNum(3), h |-> JNum(4)]}
DrawingOf(viewBox, shapes) ==
    JObj([type |-> W("DRAWING"),
          block |-> JObj([settings |-> JObj([viewBox |-> JObj(viewBox)]), shapes |-> JList(shapes)])])
Drawings ==
    {DrawingOf(viewBox, shapes) :
        viewBox \in ViewBoxes, shapes \in SeqsUpTo(ShapePool, MaxShapes) \ {<< >>}}

InitDrawing ==
    /\ pc = "start"
    /\ block \in Drawings
    /\ IdleClean /\ IdleDoc /\ IdlePayload /\ IdleOutput
    /\ IdleClassifier
    /\ IdleOrchestrator
    /\ IdleMode
    /\ IdleRedraw
    /\ IdleNest
    /\ IdleCalls

RenderDrawing ==
    /\ pc = "start"
    /\ html' = Call("ProcessDrawingBlock", << block >>)
    /\ pc' = "drawn"
    /\ UNCHANGED << expr, cleaned, recleaned, document, block, bodyTree, encoding,
                    questionDataObj, formatted, text, classifierVars, orchestratorVars, modeVars, redrawVars, nestVars, callVars >>

RenderCircuit ==
    /\ pc = "start"
    /\ html' = Call("ProcessCircuitBlock", << block >>)
    /\ pc' = "circuit"
    /\ UNCHANGED << expr, cleaned, recleaned, document, block, bodyTree, encoding,
                    questionDataObj, formatted, text, classifierVars, orchestratorVars, modeVars, redrawVars, nestVars, callVars >>

NextDrawing == RenderDrawing \/ RenderCircuit
SpecDrawing == InitDrawing /\ [][NextDrawing]_vars

\* the tags written inside unescaped text, in order: the characters from a
\* "<" to the next ">"
RECURSIVE TagsIn(_)
TagsIn(chars) ==
    IF \A i \in 1..Len(chars) : chars[i] # "<" THEN << >>
    ELSE LET lt == CHOOSE i \in 1..Len(chars) : chars[i] = "<" /\ \A m \in 1..(i - 1) : chars[m] # "<"
         IN  IF \A j \in (lt + 1)..Len(chars) : chars[j] # ">" THEN << >>
             ELSE LET gt == CHOOSE j \in (lt + 1)..Len(chars) :
                                chars[j] = ">" /\ \A m \in (lt + 1)..(j - 1) : chars[m] # ">"
                      inside == SubSeq(chars, lt + 1, gt - 1)
                      tag == IF inside # << >> /\ Head(inside) = "/"
                             THEN [t |-> "close", n |-> Tail(inside)]
                             ELSE IF inside # << >> /\ inside[Len(inside)] = "/"
                             THEN [t |-> "void", n |-> SubSeq(inside, 1, Len(inside) - 1)]
                             ELSE [t |-> "open", n |-> inside]
                  IN  << tag >> \o TagsIn(SubSeq(chars, gt + 1, Len(chars)))
\* the tags of a markup in order; the name of an element is one word
TagsOf(toks) ==
    FlatMap(LAMBDA tok : IF tok.t \in {"open", "close", "void"} THEN << [t |-> tok.t, n |-> << tok.n >>] >>
                         ELSE IF tok.t = "raw" THEN TagsIn(tok.s) ELSE << >>,
            toks)
\* every element that is opened is closed, innermost first
Balanced(toks) ==
    LET tags == TagsOf(toks)
        stack[i \in 0..Len(tags)] ==
            IF i = 0 THEN << >>
            ELSE LET below == stack[i - 1]
                 IN  IF below = << "unbalanced" >> THEN below
                     ELSE IF tags[i].t = "open" THEN << tags[i].n >> \o below
                     ELSE IF tags[i].t = "void" THEN below
                     ELSE IF below # << >> /\ Head(below) = tags[i].n THEN Tail(below)
                     ELSE << "unbalanced" >>
    IN  stack[Len(tags)] = << >>
DeclaredViewBox ==
    LET viewBox == block.v["block"].v["settings"].v["viewBox"].v
    IN  Digits(viewBox.x.v) \o <<" ">> \o Digits(viewBox.y.v) \o <<" ">>
          \o Digits(viewBox.w.v) \o <<" ">> \o Digits(viewBox.h.v)

\* C8: a non-empty SVG fragment of process_drawing_block has balanced
\* opening and closing tags, ends with </svg> and carries the viewBox the
\* input declares, whatever the types and the symbol names of the shapes.
C8_SvgWellFormed ==
    (pc \in {"drawn", "circuit"} /\ html # << >>) =>
        /\ Balanced(html)
        /\ html[Len(html)] = Close("svg")
        /\ html[1].t = "open" /\ html[1].n = "svg" /\ html[1].s = DeclaredViewBox


(***************************************************************************)
(* SpecSamples: is_mathematical_expression is called on the sample texts,  *)
(* in any order and any number of times up to MaxCalls; history keeps the  *)
(* text and the answer of every call.                                      *)
(***************************************************************************)
MaxCalls == 4
InlineSample  == <<"x", "_", "1", " ", "=", " ", "5">>
DisplaySample == <<"V", "_", "R", " ", "=", " ">> \o FracWord \o <<"{", "P", "}", "{", "I", "}">>
NoneSample    == <<"t", "h", "e", " ", "c", "a", "p", "i", "t", "a", "l", " ", "o", "f", " ",
                   "F", "r", "a", "n", "c", "e">>
Samples == {InlineSample, DisplaySample, NoneSample, <<"x", "^", "2">>, <<"x">>}

InitSamples ==
    /\ pc = "start"
    /\ IdleClassifier
    /\ IdleClean /\ IdleDoc /\ IdleBlock /\ IdlePayload /\ IdleOutput
    /\ IdleOrchestrator
    /\ IdleMode
    /\ IdleRedraw
    /\ IdleNest
    /\ IdleCalls

\* one call: it reads its argument and nothing else
ClassifySample ==
    /\ Len(history) < MaxCalls
    /\ \E sample \in Samples :
         /\ mathText' = sample
         /\ mathType' = Call("IsMathematicalExpression", << sample >>)
         /\ history' = Append(history, [text |-> sample, answer |-> mathType'])
    /\ pc' = "classified"
    /\ UNCHANGED << expr, cleaned, recleaned, document, block, bodyTree, encoding,
                    questionDataObj, formatted, html, text, orchestratorVars, modeVars, redrawVars, nestVars, callVars >>

NextSamples == ClassifySample
SpecSamples == InitSamples /\ [][NextSamples]_vars

\* C11: is_mathematical_expression is a function of its text alone: the
\* calls on one text give one answer, whatever calls came between them, and
\* "x_1 = 5" is inline, "V_R = \frac{P}{I}" is display, "the capital of
\* France" is none.
C11_ClassifierDeterministic ==
    /\ \A i, j \in 1..Len(history) :
         history[i].text = history[j].text => history[i].answer = history[j].answer
    /\ \A i \in 1..Len(history) :
         /\ history[i].text = InlineSample  => history[i].answer = "inline"
         /\ history[i].text = DisplaySample => history[i].answer = "display"
         /\ history[i].text = NoneSample    => history[i].answer = "none"

\* the display sample was classified, then two other samples, then the
\* display sample again
C11_SampleClassifiedAgain ==
    /\ Len(history) = 4
    /\ history[1].text = DisplaySample /\ history[4].text = DisplaySample
    /\ history[2].text = InlineSample /\ history[3].text = NoneSample
    /\ history[4].answer = "display"

(***************************************************************************)
(* SpecMath: is_mathematical_expression is called on a text.               *)
(***************************************************************************)
MaxTextLen == 3
MathChars == {"x", "_", "1", "=", "^", "/", " "}
MathTexts == SeqsUpTo(MathChars, MaxTextLen) \cup Samples
                \cup {<<"x", "^", "2", " ", "=">>, <<"1", "/", "x", "_", "1">>, FracWord}

InitMath ==
    /\ pc = "start"
    /\ mathText \in MathTexts /\ mathType = "none" /\ history = << >>
    /\ IdleClean /\ IdleDoc /\ IdleBlock /\ IdlePayload /\ IdleOutput
    /\ IdleOrchestrator
    /\ IdleMode
    /\ IdleRedraw
    /\ IdleNest
    /\ IdleCalls

Classify ==
    /\ pc = "start"
    /\ mathType' = Call("IsMathematicalExpression", << mathText >>)
    /\ pc' = "classified"
    /\ UNCHANGED << expr, cleaned, recleaned, document, block, bodyTree, encoding,
                    questionDataObj, formatted, html, text, mathText, history, orchestratorVars, modeVars, redrawVars, nestVars, callVars >>

NextMath == Classify
SpecMath == InitMath /\ [][NextMath]_vars

MatchesSome(patterns, chars) == \E k \in 1..Len(patterns) : Search(patterns[k], chars)
NonBlankCount(chars) == Cardinality({i \in 1..Len(chars) : chars[i] \notin Space})

\* C19: the complex rules are checked before the simple rules: a text that
\* matches a complex rule is display even when it matches simple rules, a
\* text that matches only simple rules is inline, a text that matches no
\* rule or has fewer than two non-blank characters is none.
C19_ComplexBeforeSimple ==
    pc = "classified" =>
        /\ NonBlankCount(mathText) < 2 => mathType = "none"
        /\ (NonBlankCount(mathText) >= 2 /\ MatchesSome(ComplexPatterns, mathText))
             => mathType = "display"
        /\ (NonBlankCount(mathText) >= 2 /\ ~MatchesSome(ComplexPatterns, mathText)
              /\ MatchesSome(SimplePatterns, mathText)) => mathType = "inline"
        /\ (~MatchesSome(ComplexPatterns, mathText) /\ ~MatchesSome(SimplePatterns, mathText))
             => mathType = "none"

\* a text that matches a complex rule and a simple rule has been classified
C19_BothRulesMatch ==
    /\ pc = "classified"
    /\ MatchesSome(ComplexPatterns, mathText) /\ MatchesSome(SimplePatterns, mathText)
    /\ mathType = "display"


(* The orchestrators on documents of several steps: every block carries a  *)
(* text that names its place, so that the order of the output can be read. *)
MaxSteps == 2
MaxStepBlocks == 2
Letters == <<"a", "b", "c", "d">>
\* the text of block j of step i, and of block j of the final answer
StepBlockName(i, j) == <<"s", Letters[i], Letters[j]>>
FinalBlockName(j)   == <<"f", Letters[j]>>
\* a layout: the number of blocks of every step, the number of blocks of the
\* final answer, and the place of the one block that is blank (<<0, 0>>: none;
\* <<0, j>>: block j of the final answer)
Layouts ==
    {[steps |-> s, final |-> f, blank |-> b] :
        s \in UNION {[1..n -> 0..MaxStepBlocks] : n \in 1..MaxSteps},
        f \in 0..MaxStepBlocks,
        b \in (0..MaxSteps) \X (0..MaxStepBlocks)}
ProperLayouts ==
    {l \in Layouts :
        \/ l.blank = <<0, 0>>
        \/ l.blank[1] = 0 /\ l.blank[2] \in 1..l.final
        \/ l.blank[1] \in 1..Len(l.steps) /\ l.blank[2] \in 1..l.steps[l.blank[1]]}
BlockAt(l, i, j) ==
    IF l.blank = <<i, j>> THEN TextBlock(<<" ">>)
    ELSE IF i = 0 THEN TextBlock(FinalBlockName(j)) ELSE TextBlock(StepBlockName(i, j))
\* the content object of a layout: the finalAnswer section is present when
\* the layout has final-answer blocks
LayoutContent(l) ==
    LET steps == JList([i \in 1..Len(l.steps) |->
                          JObj([blocks |-> JList([j \in 1..l.steps[i] |-> BlockAt(l, i, j)])])])
        final == JObj([blocks |-> JList([j \in 1..l.final |-> BlockAt(l, 0, j)])])
    IN  IF l.final = 0 THEN JObj([stepByStep |-> JObj([steps |-> steps])])
        ELSE JObj([stepByStep |-> JObj([steps |-> steps]), finalAnswer |-> final])
OrderedContents == {LayoutContent(l) : l \in ProperLayouts}

InitOrder ==
    /\ pc = "start"
    /\ contentObj \in OrderedContents
    /\ IdleClassifier /\ IdleClean /\ IdleDoc /\ IdleBlock /\ IdlePayload /\ IdleOutput
    /\ IdleMode
    /\ IdleRedraw
    /\ IdleNest
    /\ IdleCalls

\* process_sqna_content_for_html on the content object
RenderContent ==
    /\ pc = "start"
    /\ html' = Call("ProcessSqnaContentForHtml", << contentObj, "display" >>)
    /\ pc' = "rendered"
    /\ UNCHANGED << expr, cleaned, recleaned, document, block, bodyTree, encoding,
                    questionDataObj, formatted, text, classifierVars, orchestratorVars, modeVars, redrawVars, nestVars, callVars >>

\* _convert_answer_to_clean_text on the content object
ExportContent ==
    /\ pc = "rendered"
    /\ text' = Call("ConvertAnswerToCleanText", << contentObj >>)
    /\ pc' = "exported"
    /\ UNCHANGED << expr, cleaned, recleaned, document, block, bodyTree, encoding,
                    questionDataObj, formatted, html, classifierVars, orchestratorVars, modeVars, redrawVars, nestVars, callVars >>

NextOrder == RenderContent \/ ExportContent
SpecOrder == InitOrder /\ [][NextOrder]_vars


StepsOf(c)          == c.v["stepByStep"].v["steps"].v
StepBlocksOf(c, i)  == StepsOf(c)[i].v["blocks"].v
FinalBlocksOf(c)    == IF "finalAnswer" \in DOMAIN c.v THEN c.v["finalAnswer"].v["blocks"].v ELSE << >>
\* the texts of an output, in the order of the output, blank ones left out
TextsOf(toks) ==
    LET texts == SelectSeq(toks, LAMBDA tok : tok.t \in {"text", "raw"} /\ Strip(tok.s) # << >>)
    IN  [i \in 1..Len(texts) |-> texts[i].s]
HtmlStepMark(i, total) == <<"Step ">> \o Digits(i) \o <<" of ">> \o Digits(total)
TextStepMark(i)        == <<"*", "*", "Step ">> \o Digits(i) \o <<"*", "*">>
HtmlFinalMark          == <<"Final Answer">>
TextFinalMark          == <<"*", "*", "Final Answer", "*", "*">>
\* the order of the lists of the content object: every step's mark and then
\* the names of its blocks, and after all steps the final mark and the names
\* of the final-answer blocks
ListOrder(c, StepMark(_), finalMark) ==
    Concat([i \in 1..Len(StepsOf(c)) |->
              << StepMark(i) >> \o [j \in 1..Len(StepBlocksOf(c, i)) |-> StepBlockName(i, j)]])
    \o << finalMark >> \o [j \in 1..Len(FinalBlocksOf(c)) |-> FinalBlockName(j)]
\* a is b with some elements left out (the elements of b are distinct)
InOrderOf(a, b) ==
    /\ \A k \in 1..Len(a) : \E m \in 1..Len(b) : b[m] = a[k]
    /\ \A k \in 1..(Len(a) - 1) :
         \E m, n \in 1..Len(b) : m < n /\ b[m] = a[k] /\ b[n] = a[k + 1]
\* every block that has a text occurs in the texts
AllNamed(c, texts) ==
    /\ \A i \in 1..Len(StepsOf(c)) : \A j \in 1..Len(StepBlocksOf(c, i)) :
         StepBlocksOf(c, i)[j] = TextBlock(StepBlockName(i, j))
           => \E k \in 1..Len(texts) : texts[k] = StepBlockName(i, j)
    /\ \A j \in 1..Len(FinalBlocksOf(c)) :
         FinalBlocksOf(c)[j] = TextBlock(FinalBlockName(j))
           => \E k \in 1..Len(texts) : texts[k] = FinalBlockName(j)

\* C12: the HTML and the text of a content object keep the order of its
\* lists: the steps in the order of the steps list, the blocks of a step in
\* the order of its block list, the final answer after every step and its
\* blocks in their order, and no block with a text is left out.
C12_OutputInListOrder ==
    /\ pc \in {"rendered", "exported"} =>
         /\ InOrderOf(TextsOf(html),
                      ListOrder(contentObj, LAMBDA i : HtmlStepMark(i, Len(StepsOf(contentObj))),
                                HtmlFinalMark))
         /\ AllNamed(contentObj, TextsOf(html))
    /\ pc = "exported" =>
         /\ InOrderOf(TextsOf(text), ListOrder(contentObj, TextStepMark, TextFinalMark))
         /\ AllNamed(contentObj, TextsOf(text))
\* two steps of two blocks and a final answer of two blocks, every block with
\* a text, rendered and exported
C12_TwoStepsAndFinalExported ==
    /\ pc = "exported"
    /\ contentObj = LayoutContent([steps |-> <<2, 2>>, final |-> 2, blank |-> <<0, 0>>])
    /\ TextsOf(html) = << HtmlStepMark(1, 2), StepBlockName(1, 1), StepBlockName(1, 2),
                          HtmlStepMark(2, 2), StepBlockName(2, 1), StepBlockName(2, 2),
                          HtmlFinalMark, FinalBlockName(1), FinalBlockName(2) >>
    /\ TextsOf(text) = << TextStepMark(1), StepBlockName(1, 1), StepBlockName(1, 2),
                          TextStepMark(2), StepBlockName(2, 1), StepBlockName(2, 2),
                          TextFinalMark, FinalBlockName(1), FinalBlockName(2) >>


(* process_sqna_content_for_html and _convert_answer_to_clean_text on the  *)
(* result of format_answer_content.                                        *)
\* a block of a payload that has its content and its editor state as well
FullBlock(chars) ==
    JObj([type |-> W("TEXT"), content |-> JObj([text |-> JStr(chars)]),
          block |-> EditorBlock(JList(<< TextParagraph(JStr(chars)) >>))])
AnswerPool ==
    {ContentBlock("TEXT", "text", <<"a", "b">>), FullBlock(<<"c", "d">>),
     ContentBlock("TEXT", "text", <<" ">>)}
AnswerTrees == [step : SeqsUpTo(AnswerPool, MaxTreeBlocks), final : SeqsUpTo(AnswerPool, MaxTreeBlocks)]

InitAnswer ==
    /\ pc = "start"
    /\ bodyTree \in AnswerTrees /\ encoding \in TreeEncodings
    /\ questionDataObj = PayloadOf(bodyTree, encoding)
    /\ formatted = JNull
    /\ IdleClean /\ IdleDoc /\ IdleBlock /\ IdleOutput /\ IdleClassifier /\ IdleOrchestrator
    /\ IdleMode
    /\ IdleRedraw
    /\ IdleNest
    /\ IdleCalls

\* process_sqna_content_for_html on the normalized document
RenderFormatted ==
    /\ pc = "formatted"
    /\ html' = Call("ProcessSqnaContentForHtml", << formatted, "display" >>)
    /\ pc' = "rendered"
    /\ UNCHANGED << expr, cleaned, recleaned, document, block, bodyTree, encoding,
                    questionDataObj, formatted, text, classifierVars, orchestratorVars, modeVars, redrawVars, nestVars, callVars >>

\* _convert_answer_to_clean_text on the normalized document
ExportFormatted ==
    /\ pc = "rendered"
    /\ text' = Call("ConvertAnswerToCleanText", << formatted >>)
    /\ pc' = "exported"
    /\ UNCHANGED << expr, cleaned, recleaned, document, block, bodyTree, encoding,
                    questionDataObj, formatted, html, classifierVars, orchestratorVars, modeVars, redrawVars, nestVars, callVars >>

NextAnswer == Format \/ RenderFormatted \/ ExportFormatted
SpecAnswer == InitAnswer /\ [][NextAnswer]_vars

\* the document has steps or final-answer blocks
HasSections(doc) ==
    \/ Truthy(Get(Get(doc, "stepByStep", JObj(<< >>)), "steps", EmptyList))
    \/ Truthy(Get(Get(doc, "finalAnswer", JObj(<< >>)), "blocks", EmptyList))
\* the document without its flat block list
WithoutFlat(doc) == JObj([key \in DOMAIN doc.v \ {"blocks"} |-> doc.v[key]])
\* the number of the texts of the output that are chars
TimesIn(toks, chars) == Cardinality({i \in 1..Len(toks) : toks[i].t = "text" /\ toks[i].s = chars})

\* C13: for a normalized document that has steps or final-answer blocks the
\* HTML is the one of its sections alone: nothing is rendered from the flat
\* block list, so a block is rendered once, as in the text output.
C13_FlatListOnlyWithoutSections ==
    (pc \in {"rendered", "exported"} /\ HasSections(formatted)) =>
        /\ html = ProcessSqnaContentForHtml(WithoutFlat(formatted), "display")
        /\ \A chars \in {<<"a", "b">>, <<"c", "d">>} : TimesIn(html, chars) <= 1


(* process_block_enhanced on blocks of every type tag. *)
SupportedTypes ==
    {W("TEXT"), W("EXPLANATION"), W("EQUATION_RENDERER"), W("ACCOUNTING_TABLE"), W("TABLE"),
     W("DRAWING"), W("CIRCUIT"), W("LIST"), W("HTML"), W("CODE_SNIPPET"), W("IMAGE_UPLOAD"),
     W("MATH_IN_TEXT")}
\* the type tags of the pool: JNull here stands for a block without the key
TypeTags ==
    {JNull, W("UNKNOWN"), W("VIDEO"), W("text"), JStr(<< >>), JNum(5), EmptyList,
     W("TEXT"), W("EXPLANATION"), W("HTML"), W("LIST"), W("EQUATION_RENDERER")}
BlockBodies ==
    {JNull, EditorBlock(JList(<< TextParagraph(JStr(<<"a", "b">>)) >>)), JNum(5),
     JObj([lines |-> JList(<< JObj([left |-> JStr(<<"x">>), operator |-> JStr(<<"=">>),
                                    right |-> JStr(<<"1">>)]) >>)])}
BlockContents == {JNull, JStr(<<"a", "b">>), JObj([text |-> JStr(<<"a", "b">>)])}
\* the block of a type tag, a body and a content: a JNull field is left out
TaggedBlock(tag, body, content) ==
    JObj([key \in {k \in {"type", "block", "content"} :
                     CASE k = "type"  -> tag # JNull
                       [] k = "block" -> body # JNull
                       [] OTHER       -> content # JNull} |->
            CASE key = "type" -> tag [] key = "block" -> body [] OTHER -> content])
TaggedBlocks == {TaggedBlock(tag, body, content) :
                   tag \in TypeTags, body \in BlockBodies, content \in BlockContents}

InitTagged ==
    /\ pc = "start"
    /\ block \in TaggedBlocks
    /\ mode \in {"display", "copy"}
    /\ IdleClean /\ IdleDoc /\ IdlePayload /\ IdleOutput /\ IdleClassifier /\ IdleOrchestrator
    /\ IdleRedraw
    /\ IdleNest
    /\ IdleCalls

\* process_block_enhanced on the block
RenderTagged ==
    /\ pc = "start"
    /\ html' = Call("ProcessBlockEnhanced", << block, mode >>)
    /\ pc' = "rendered"
    /\ UNCHANGED << expr, cleaned, recleaned, document, block, bodyTree, encoding,
                    questionDataObj, formatted, text, classifierVars, orchestratorVars, modeVars, redrawVars, nestVars, callVars >>

NextTagged == RenderTagged
SpecTagged == InitTagged /\ [][NextTagged]_vars

\* the type tag of the block is UNKNOWN, missing, or no supported type
Unsupported(b) == ~HasKey(b, "type") \/ b.v["type"] \notin SupportedTypes

\* C14: process_block_enhanced returns the empty string and does not raise
\* for every block whose type tag is UNKNOWN, missing or no supported type.
C14_UnsupportedTypeRendersEmpty ==
    (pc = "rendered" /\ Unsupported(block)) => html = << >>
\* a block without a type tag that has the editor state of a paragraph has
\* been rendered (as a TEXT block it renders the paragraph)
C14_UntypedParagraphRendered ==
    /\ pc = "rendered"
    /\ block = TaggedBlock(JNull, EditorBlock(JList(<< TextParagraph(JStr(<<"a", "b">>)) >>)), JNull)
    /\ html = << >>
    /\ ~Blank(ProcessBlockEnhanced(TextBlock(<<"a", "b">>), mode))


(* process_drawing_block called again and again on one drawing. *)
MaxRenders == 3
Styled(shape, style) == JObj(shape.v @@ [style |-> JObj(style)])
RedSymbol   == Styled(Resistor, [fill |-> W("red")])
BlueSymbol  == Styled(Resistor, [stroke |-> W("blue")])
RedRect     == Styled(RectShape, [fill |-> W("red")])
ListGroup   == JObj(ShapeOf("Group", 1, 1, 0, 0) @@ [shapes |-> JList(<< RedSymbol >>)])
KeyedGroup  == JObj(ShapeOf("CompoundShape", 2, 1, 0, 1) @@ [shapes |-> JObj(("0" :> RedSymbol))])
StyledPool  == {Resistor, RectShape, RedSymbol, BlueSymbol, RedRect, ListGroup, KeyedGroup}
StyledDrawings ==
    {DrawingOf([x |-> JNum(0), y |-> JNum(0), w |-> JNum(40), h |-> JNum(20)], shapes) :
        shapes \in SeqsUpTo(StyledPool, MaxShapes) \ {<< >>}}
\* the drawing after a call of process_drawing_block that reached its shapes
DrawingAfter(drawing) ==
    LET shapes == drawing.v["block"].v["shapes"].v
    IN  JObj([drawing.v EXCEPT !["block"] =
                JObj([drawing.v["block"].v EXCEPT !["shapes"] =
                        JList([i \in 1..Len(shapes) |-> ShapeAfter(shapes[i])])])])

InitRedraw ==
    /\ pc = "start"
    /\ block \in StyledDrawings
    /\ given = block
    /\ svgs = << >>
    /\ IdleClean /\ IdleDoc /\ IdlePayload /\ IdleOutput /\ IdleClassifier /\ IdleOrchestrator
    /\ IdleMode
    /\ IdleNest
    /\ IdleCalls

\* process_drawing_block on the drawing: processShape writes the forced fill
\* into the style of the PythagorasSVG shapes it reaches
Redraw ==
    /\ Len(svgs) < MaxRenders
    /\ html' = Call("ProcessDrawingBlock", << block >>)
    /\ svgs' = Append(svgs, html')
    /\ block' = DrawingAfter(block)
    /\ pc' = "drawn"
    /\ UNCHANGED << expr, cleaned, recleaned, document, bodyTree, encoding, questionDataObj,
                    formatted, text, classifierVars, orchestratorVars, modeVars, given, nestVars, callVars >>

NextRedraw == Redraw
SpecRedraw == InitRedraw /\ [][NextRedraw]_vars

\* C15: process_drawing_block leaves the shape tree as it was given, and
\* every rendering of the tree in a row is the same SVG.
C15_ShapeTreeUnchanged ==
    /\ block = given
    /\ \A i, j \in 1..Len(svgs) : svgs[i] = svgs[j]


(* process_drawing_block on a shape nested inside CompoundShape and Group  *)
(* ancestors.                                                              *)
MaxDepth == 2
LeafKinds == {"Rect", "Line", "Text"}
\* an ancestor: its type, its offset and whether its children are keyed
Ancestors == [type : {"Group", "CompoundShape"}, dx : {0, 3}, dy : {5}, keyed : BOOLEAN]
Nestings  == [kind : LeafKinds, x : {0, 2}, y : {1}, ancestors : SeqsUpTo(Ancestors, MaxDepth)]
LeafShape(kind, x, y) ==
    CASE kind = "Rect" -> JObj(ShapeOf("Rect", x, y, 2, 1))
      [] kind = "Line" -> JObj(ShapeOf("Line", x, y, 0, 0)
                               @@ [points |-> JList(<< JObj([x |-> JNum(0), y |-> JNum(0)]),
                                                       JObj([x |-> JNum(1), y |-> JNum(2)]) >>)])
      [] OTHER -> JObj(ShapeOf("Text", x, y, 2, 2)
                       @@ [value |-> JList(<< JObj([text |-> JStr(<<"a">>)]) >>)])
\* a sibling that every ancestor holds before its nested child
Sibling == JObj(ShapeOf("Ellipse", 7, 7, 4, 2))
RECURSIVE Nest(_, _)
Nest(leaf, ancestors) ==
    IF ancestors = << >> THEN leaf
    ELSE LET a     == Head(ancestors)
             child == Nest(leaf, Tail(ancestors))
         IN  JObj([type |-> W(a.type), x |-> JNum(a.dx), y |-> JNum(a.dy),
                   shapes |-> IF a.keyed THEN JObj(("0" :> Sibling) @@ ("1" :> child))
                              ELSE JList(<< Sibling, child >>)])
NestedDrawing(n) ==
    DrawingOf([x |-> JNum(0), y |-> JNum(0), w |-> JNum(40), h |-> JNum(20)],
              << Nest(LeafShape(n.kind, n.x, n.y), n.ancestors) >>)

InitNested ==
    /\ pc = "start"
    /\ nesting \in Nestings
    /\ block = NestedDrawing(nesting)
    /\ IdleClean /\ IdleDoc /\ IdlePayload /\ IdleOutput /\ IdleClassifier /\ IdleOrchestrator
    /\ IdleMode /\ IdleRedraw
    /\ IdleCalls

\* process_drawing_block on the drawing of the nesting
DrawNested ==
    /\ pc = "start"
    /\ html' = Call("ProcessDrawingBlock", << block >>)
    /\ pc' = "drawn"
    /\ UNCHANGED << expr, cleaned, recleaned, document, block, bodyTree, encoding,
                    questionDataObj, formatted, text, classifierVars, orchestratorVars,
                    modeVars, redrawVars, nestVars, callVars >>

NextNested == DrawNested
SpecNested == InitNested /\ [][NextNested]_vars

RECURSIVE SumOf(_, _)
\* the sum of the field of the ancestors
SumOf(ancestors, field) ==
    IF ancestors = << >> THEN 0 ELSE Head(ancestors)[field] + SumOf(Tail(ancestors), field)
\* the element of a leaf at the absolute place (x, y): its name and its
\* numbers (the model keeps every coordinate doubled)
LeafElement(kind, x, y) ==
    CASE kind = "Rect" -> [n |-> "rect", x |-> << 2 * x, 2 * y, 4, 2 >>]
      [] kind = "Line" -> [n |-> "line", x |-> << 2 * x, 2 * y, 2 * (x + 1), 2 * (y + 2) >>]
      [] OTHER         -> [n |-> "text", x |-> << 2 * x, 2 * y + 2 >>]
LeafTags == {"rect", "line", "text"}
\* the elements of the leaf tags in the SVG
LeavesIn(toks) ==
    SelectSeq(toks, LAMBDA tok : tok.t \in {"open", "void"} /\ tok.n \in LeafTags)

\* C18: the coordinates emitted for a nested shape are its own (x, y) plus
\* the sum of the offsets of all of its ancestors, at every depth, with the
\* children given as a list or as a keyed collection.
C18_NestedOffsetsAdd ==
    pc = "drawn" =>
        LET leaves == LeavesIn(html)
            place  == LeafElement(nesting.kind, nesting.x + SumOf(nesting.ancestors, "dx"),
                                  nesting.y + SumOf(nesting.ancestors, "dy"))
        IN  /\ Len(leaves) = 1
            /\ leaves[1].n = place.n
            /\ leaves[1].x = place.x
\* a rect at (2, 1) below a keyed CompoundShape at (3, 5) below a Group with
\* a list at (3, 5) has been drawn at (8, 11)
C18_TwoLevelsDrawn ==
    /\ pc = "drawn"
    /\ nesting = [kind |-> "Rect", x |-> 2, y |-> 1,
                  ancestors |-> << [type |-> "Group", dx |-> 3, dy |-> 5, keyed |-> FALSE],
                                   [type |-> "CompoundShape", dx |-> 3, dy |-> 5, keyed |-> TRUE] >>]
    /\ LeavesIn(html)[1].x = << 16, 22, 4, 2 >>


(* The orchestrators on steps whose title is absent or of a wrong type. *)
TitleChoices == {"absent", "null", "number", "list", "string", "blank"}
TitleOf(choice) ==
    CASE choice = "null"   -> JNull
      [] choice = "number" -> JNum(5)
      [] choice = "list"   -> JList(<< JStr(<<"T">>) >>)
      [] choice = "blank"  -> JStr(<<" ">>)
      [] OTHER             -> JStr(<<"T">>)
\* step i with its blocks, and with a title unless the choice is "absent"
TitledStep(choice, i, count) ==
    LET blocks == JList([j \in 1..count |-> TextBlock(StepBlockName(i, j))])
    IN  IF choice = "absent" THEN JObj([blocks |-> blocks])
        ELSE JObj([title |-> TitleOf(choice), blocks |-> blocks])
TitledContent(choices, count, final) ==
    LET steps == JList([i \in 1..Len(choices) |-> TitledStep(choices[i], i, count)])
    IN  IF final = 0 THEN JObj([stepByStep |-> JObj([steps |-> steps])])
        ELSE JObj([stepByStep |-> JObj([steps |-> steps]),
                   finalAnswer |-> JObj([blocks |-> JList([j \in 1..final |->
                                                             TextBlock(FinalBlockName(j))])])])
TitledContents ==
    {TitledContent(choices, count, final) :
        choices \in UNION {[1..n -> TitleChoices] : n \in 1..MaxSteps},
        count \in 1..MaxStepBlocks, final \in 0..1}

InitTitled ==
    /\ pc = "start"
    /\ contentObj \in TitledContents
    /\ IdleClassifier /\ IdleClean /\ IdleDoc /\ IdleBlock /\ IdlePayload /\ IdleOutput
    /\ IdleMode /\ IdleRedraw /\ IdleNest
    /\ IdleCalls

NextTitled == RenderContent \/ ExportContent
SpecTitled == InitTitled /\ [][NextTitled]_vars

\* the content object with every title that is no string left out
WithoutOddTitles(c) ==
    LET Plain(step) == IF HasKey(step, "title") /\ ~IsStr(step.v["title"])
                       THEN JObj([key \in DOMAIN step.v \ {"title"} |-> step.v[key]])
                       ELSE step
    IN  JObj([c.v EXCEPT !["stepByStep"] =
                JObj([steps |-> JList([i \in 1..Len(StepsOf(c)) |-> Plain(StepsOf(c)[i])])])])
OddTitle(c) == \E i \in 1..Len(StepsOf(c)) :
                  HasKey(StepsOf(c)[i], "title") /\ ~IsStr(StepsOf(c)[i].v["title"])

\* C17: a title that is null or no string is treated as an absent one: the
\* HTML and the text are those of the document without that title, with the
\* headers and the blocks of every step and the final answer.
C17_OddTitleTreatedAsAbsent ==
    /\ pc \in {"rendered", "exported"} =>
         /\ html = ProcessSqnaContentForHtml(WithoutOddTitles(contentObj), "display")
         /\ AllNamed(contentObj, TextsOf(html))
    /\ pc = "exported" =>
         /\ text = ConvertAnswerToCleanText(WithoutOddTitles(contentObj))
         /\ AllNamed(contentObj, TextsOf(text))


(* process_generic_table and process_accounting_table on tables whose      *)
(* cells are with content, blank, empty or absent.                         *)
MaxGridRows == 2
MaxGridCols == 2
FaintKinds == {"text", "blank", "absent"}
FaintCells(kinds) ==
    [pos \in {p \in DOMAIN kinds : kinds[p] # "absent"} |->
        IF kinds[pos] = "text" THEN TableCell(CellName(pos[1], pos[2])) ELSE TableCell(<<" ">>)]
FaintGenericTables ==
    UNION {{TableBlock(d[1], d[2], FaintCells(kinds), << >>, << >>) :
                kinds \in [GridOf(d[1], d[2]) -> FaintKinds]} :
           d \in (1..MaxGridRows) \X (1..MaxGridCols)}
\* the values of the cells of an accounting table
LedgerKinds == {"text", "blank", "braces", "number", "absent"}
LedgerCell(kind) ==
    CASE kind = "text"   -> JObj([value |-> JStr(<<"a">>)])
      [] kind = "blank"  -> JObj([value |-> JStr(<<" ">>)])
      [] kind = "braces" -> TableCell(<<"{", "}">>)
      [] OTHER           -> JObj([value |-> JNum(5)])
LedgerCells(kinds) ==
    JGrid([pos \in {p \in DOMAIN kinds : kinds[p] # "absent"} |-> LedgerCell(kinds[pos])])
\* an accounting table of one entry: a header row and a body row
LedgerTables ==
    UNION {{JObj([type |-> W("ACCOUNTING_TABLE"),
                  block |-> JObj([entries |-> JList(<< JObj([headerCells |-> LedgerCells(head),
                                                             bodyCells |-> LedgerCells(body)]) >>)])]) :
                head \in [{0} \X (0..(n - 1)) -> LedgerKinds],
                body \in [{0} \X (0..(n - 1)) -> LedgerKinds]} :
           n \in 1..MaxGridCols}

InitFaint ==
    /\ pc = "start"
    /\ block \in FaintGenericTables \cup LedgerTables
    /\ mode \in {"display", "copy"}
    /\ IdleClean /\ IdleDoc /\ IdlePayload /\ IdleOutput /\ IdleClassifier /\ IdleOrchestrator
    /\ IdleRedraw /\ IdleNest
    /\ IdleCalls

\* process_generic_table on a TABLE block
RenderGenericTable ==
    /\ pc = "start"
    /\ block.v["type"] = W("TABLE")
    /\ html' = Call("ProcessGenericTable", << block, mode >>)
    /\ pc' = "rendered"
    /\ UNCHANGED << expr, cleaned, recleaned, document, block, bodyTree, encoding,
                    questionDataObj, formatted, text, classifierVars, orchestratorVars,
                    modeVars, redrawVars, nestVars, callVars >>

\* process_accounting_table on an ACCOUNTING_TABLE block
RenderAccountingTable ==
    /\ pc = "start"
    /\ block.v["type"] = W("ACCOUNTING_TABLE")
    /\ html' = Call("ProcessAccountingTable", << block, mode >>)
    /\ pc' = "rendered"
    /\ UNCHANGED << expr, cleaned, recleaned, document, block, bodyTree, encoding,
                    questionDataObj, formatted, text, classifierVars, orchestratorVars,
                    modeVars, redrawVars, nestVars, callVars >>

NextFaint == RenderGenericTable \/ RenderAccountingTable
SpecFaint == InitFaint /\ [][NextFaint]_vars

\* some cell of the table renders to content that is not blank
SomeCellRenders(table, how) ==
    IF table.v["type"] = W("TABLE")
    THEN LET cells == table.v["block"].v["cells"]
         IN  \E key \in GridKeys(cells) :
                Strip(ExtractCellData(Get(cells.v[key], "value", EmptyObj)).text) # << >>
    ELSE LET entry == table.v["block"].v["entries"].v[1]
         IN  \E part \in {"headerCells", "bodyCells"} :
                \E key \in GridKeys(entry.v[part]) :
                   ~Blank(DetermineCellAlignment(Get(entry.v[part].v[key], "value", EmptyStr),
                                                 how).toks)

\* C20: a table in which no cell renders to content that is not blank gives
\* the empty string, and what a table gives otherwise is a table element.
C20_NoContentNoTable ==
    pc = "rendered" =>
        /\ ~SomeCellRenders(block, mode) => html = << >>
        /\ html # << >> => /\ SomeCellRenders(block, mode)
                           /\ html[2].t = "open" /\ html[2].n = "table"
\* a generic table of blank cells and an accounting table of a blank, a
\* braces and a number cell have been rendered to nothing
C20_BlankTableRendered ==
    /\ pc = "rendered"
    /\ html = << >>
    /\ \/ block = TableBlock(2, 2, FaintCells([pos \in GridOf(2, 2) |-> "blank"]), << >>, << >>)
       \/ /\ block.v["type"] = W("ACCOUNTING_TABLE")
          /\ block.v["block"].v["entries"].v[1].v["headerCells"]
               = LedgerCells((<<0, 0>> :> "blank") @@ (<<0, 1>> :> "braces"))
          /\ block.v["block"].v["entries"].v[1].v["bodyCells"]
               = LedgerCells((<<0, 0>> :> "number") @@ (<<0, 1>> :> "blank"))


(* Calls of process_sqna_content_for_html on the shared answer_generator   *)
(* that run at once: a call advances by one block, or by the end of one of *)
(* its loops, at a time, and the calls are interleaved in every way.       *)
MaxCallers == 2
Callers == 1..MaxCallers
\* all calls keep their local variables in one place
SharedFrame(c) == 1
\* the local variables of a call belong to that call
Frame(c) == c
\* the local variables at the entry of a call: html_content = ""
EntryFrame == [sect |-> "steps", i |-> 1, j |-> 1, sectionHtml |-> << >>, htmlContent |-> << >>]
\* a step with a title and a blank block, and a final answer
StepsDocument ==
    JObj([stepByStep |-> JObj([steps |-> JList(<< JObj([title |-> JStr(<<"T">>),
                                                        blocks |-> JList(<< TextBlock(<<"s", "a">>),
                                                                            TextBlock(<<" ">>) >>)]) >>)]),
          finalAnswer |-> JObj([blocks |-> JList(<< TextBlock(<<"f", "a">>) >>)])])
FlatDocument    == JObj([blocks |-> JList(<< TextBlock(<<"z", "a">>), TextBlock(<<"z", "b">>) >>)])
\* a document with a block that is no mapping: the call gives ""
RaisingDocument ==
    JObj([stepByStep |-> JObj([steps |-> JList(<< JObj([blocks |-> JList(<< TextBlock(<<"r", "a">>),
                                                                            NotMapping >>)]) >>)])])
ConcurrentDocuments == {StepsDocument, FlatDocument, RaisingDocument}

StepsIn(doc) == IF HasKey(doc, "stepByStep") /\ HasKey(doc.v["stepByStep"], "steps")
                THEN doc.v["stepByStep"].v["steps"].v ELSE << >>
FinalIn(doc) == IF HasKey(doc, "finalAnswer") /\ HasKey(doc.v["finalAnswer"], "blocks")
                THEN doc.v["finalAnswer"].v["blocks"].v ELSE << >>
FlatIn(doc)  == IF HasKey(doc, "blocks") THEN doc.v["blocks"].v ELSE << >>
\* the blocks of the loop the call is in
CurrentBlocks(doc, f) ==
    CASE f.sect = "steps" /\ f.i <= Len(StepsIn(doc)) -> Get(StepsIn(doc)[f.i], "blocks", EmptyList).v
      [] f.sect = "final" -> FinalIn(doc)
      [] f.sect = "flat"  -> FlatIn(doc)
      [] OTHER -> << >>

InitCalls ==
    /\ pc = "start"
    /\ requests \in [Callers -> ConcurrentDocuments]
    /\ frames = [c \in Callers |-> EntryFrame]
    /\ returned = [c \in Callers |-> [st |-> "idle", out |-> << >>]]
    /\ overlapped = FALSE
    /\ IdleClean /\ IdleDoc /\ IdleBlock /\ IdlePayload /\ IdleOutput /\ IdleClassifier
    /\ IdleOrchestrator /\ IdleMode /\ IdleRedraw /\ IdleNest

Running(c) == returned[c].st = "running"
Overlap(c) == overlapped \/ \E other \in Callers \ {c} : Running(other)

\* the entry of a call: html_content = ""
Enter(c) ==
    /\ returned[c].st = "idle"
    /\ returned' = [returned EXCEPT ![c].st = "running"]
    /\ frames' = [frames EXCEPT ![Frame(c)] = EntryFrame]
    /\ pc' = "running"
    /\ UNCHANGED << expr, cleaned, recleaned, document, block, bodyTree, encoding,
                    questionDataObj, formatted, html, text, classifierVars, orchestratorVars,
                    modeVars, redrawVars, nestVars, requests, overlapped >>

\* one turn of a loop over blocks: process_block_enhanced on the next block
ProcessNextBlock(c) ==
    LET f      == frames[Frame(c)]
        blocks == CurrentBlocks(requests[c], f)
    IN  /\ Running(c)
        /\ f.sect \in {"steps", "final", "flat"}
        /\ f.j <= Len(blocks)
        /\ \E processed \in {Call("ProcessBlockEnhanced", << blocks[f.j], "display" >>)} :
               frames' = [frames EXCEPT ![Frame(c)] =
                   IF Raised(processed) THEN [f EXCEPT !.sect = "raised"]
                   ELSE IF Blank(processed) THEN [f EXCEPT !.j = f.j + 1]
                   ELSE IF f.sect = "flat"
                   THEN [f EXCEPT !.j = f.j + 1, !.htmlContent = f.htmlContent \o processed]
                   ELSE [f EXCEPT !.j = f.j + 1, !.sectionHtml = f.sectionHtml \o processed]]
        /\ overlapped' = Overlap(c)
        /\ pc' = "running"
        /\ UNCHANGED << expr, cleaned, recleaned, document, block, bodyTree, encoding,
                        questionDataObj, formatted, html, text, classifierVars, orchestratorVars,
                        modeVars, redrawVars, nestVars, requests, returned >>

\* the end of a loop over blocks: the step or the final answer goes to
\* html_content with its header when it has content
CloseSection(c) ==
    LET f      == frames[Frame(c)]
        doc    == requests[c]
        steps  == StepsIn(doc)
        title  == Strip(Get(steps[f.i], "title", EmptyStr).v)
    IN  /\ Running(c)
        /\ f.sect \in {"steps", "final"}
        /\ f.j > Len(CurrentBlocks(doc, f))
        /\ frames' = [frames EXCEPT ![Frame(c)] =
               IF f.sect = "steps" /\ f.i <= Len(steps)
               THEN [f EXCEPT !.i = f.i + 1, !.j = 1, !.sectionHtml = << >>,
                              !.htmlContent = f.htmlContent \o
                                  (IF f.sectionHtml = << >> THEN << >>
                                   ELSE StepHeader(f.i, Len(steps), title) \o f.sectionHtml)]
               ELSE IF f.sect = "steps"
               THEN [f EXCEPT !.sect = "final", !.j = 1, !.sectionHtml = << >>]
               ELSE [f EXCEPT !.sect = "flat", !.j = 1, !.sectionHtml = << >>,
                              !.htmlContent = f.htmlContent \o
                                  (IF Blank(f.sectionHtml) THEN << >>
                                   ELSE << Open("div", "final-answer"), Open("h3", ""),
                                           Text(<<"Final Answer">>), Close("h3") >>
                                        \o f.sectionHtml \o << Close("div") >>)]]
        /\ overlapped' = Overlap(c)
        /\ pc' = "running"
        /\ UNCHANGED << expr, cleaned, recleaned, document, block, bodyTree, encoding,
                        questionDataObj, formatted, html, text, classifierVars, orchestratorVars,
                        modeVars, redrawVars, nestVars, requests, returned >>

\* return html_content or "", and "" from the except
Return(c) ==
    LET f == frames[Frame(c)]
    IN  /\ Running(c)
        /\ \/ f.sect = "raised"
           \/ f.sect = "flat" /\ f.j > Len(FlatIn(requests[c]))
        /\ returned' = [returned EXCEPT ![c] =
               [st |-> "done", out |-> IF f.sect = "raised" THEN << >> ELSE f.htmlContent]]
        /\ pc' = "running"
        /\ UNCHANGED << expr, cleaned, recleaned, document, block, bodyTree, encoding,
                        questionDataObj, formatted, html, text, classifierVars, orchestratorVars,
                        modeVars, redrawVars, nestVars, requests, frames, overlapped >>

NextCalls ==
    \E c \in Callers : Enter(c) \/ ProcessNextBlock(c) \/ CloseSection(c) \/ Return(c)
SpecCalls == InitCalls /\ [][NextCalls]_vars

\* C16: a call that runs at once with other calls on the shared instance
\* returns what it returns when it runs alone.
C16_CallsDoNotInterfere ==
    pc = "running" =>
        \A c \in Callers :
            returned[c].st = "done" =>
                returned[c].out = ProcessSqnaContentForHtml(requests[c], "display")
\* two calls on different documents have run at once and both have returned
\* their markup
C16_InterleavedCallsReturned ==
    /\ pc = "running"
    /\ overlapped
    /\ requests[1] = StepsDocument /\ requests[2] = FlatDocument
    /\ returned[1].st = "done" /\ returned[2].st = "done"
    /\ returned[1].out # << >> /\ returned[2].out # << >>


(* The alignment of the cells of generic and of accounting tables that     *)
(* hold the same contents.                                                 *)
MaxAlignCols == 2
AlignContents ==
    {<<"1", "0", "0">>, <<"$", "5">>, <<"5", "%">>, <<"-", "7">>, <<"1", "/", "2", "/", "2", "4">>,
     <<"D", "a", "t", "e">>, <<"a", "b">>, <<"n", "a", "m", "e">>}
\* a table of one row with the contents as its cells
AlignGrid(contents) == [pos \in {0} \X (0..(Len(contents) - 1)) |-> TableCell(contents[pos[2] + 1])]
AlignTables ==
    UNION {{TableBlock(1, Len(contents), AlignGrid(contents), << >>, << >>),
            JObj([type |-> W("ACCOUNTING_TABLE"),
                  block |-> JObj([entries |-> JList(<< JObj([headerCells |->
                                                               JGrid(AlignGrid(contents))]) >>)])])} :
           contents \in UNION {[1..n -> AlignContents] : n \in 1..MaxAlignCols}}

InitAlign ==
    /\ pc = "start"
    /\ block \in AlignTables
    /\ mode \in {"display", "copy"}
    /\ IdleClean /\ IdleDoc /\ IdlePayload /\ IdleOutput /\ IdleClassifier /\ IdleOrchestrator
    /\ IdleRedraw /\ IdleNest /\ IdleCalls

NextAlign == RenderGenericTable \/ RenderAccountingTable
SpecAlign == InitAlign /\ [][NextAlign]_vars

\* the content classification: currency, percentage and number are right, a
\* date and a header keyword are center, anything else is left
ClassifiedAlign(content) ==
    IF MatchAtStart(CurrencyPattern, content) \/ MatchAtStart(PercentPattern, content)
         \/ MatchAtStart(NumberPattern, content)
    THEN "right"
    ELSE IF MatchAtStart(DatePattern, content)
              \/ \E keyword \in header_keywords : Search(Word(Chars(keyword)), ToLower(content))
    THEN "center"
    ELSE "left"
\* the cells of the one row of the table, from left to right
RowCellsOf(table) ==
    LET grid == IF table.v["type"] = W("TABLE") THEN table.v["block"].v["cells"]
                ELSE table.v["block"].v["entries"].v[1].v["headerCells"]
    IN  [k \in 1..Cardinality(GridKeys(grid)) |-> grid.v[<<0, k - 1>>]]
CellElements(toks) ==
    SelectSeq(toks, LAMBDA tok : tok.t = "open" /\ tok.n \in {"th", "td"})

\* C21: every cell of a generic and of an accounting table has the
\* text-align of the classification of its content, so one content has one
\* alignment in both kinds of table.
C21_AlignmentFromClassification ==
    (pc = "rendered" /\ html # << >>) =>
        LET cells    == RowCellsOf(block)
            elements == CellElements(html)
        IN  /\ Len(elements) = Len(cells)
            /\ \A k \in 1..Len(cells) :
                 \E content \in AlignContents :
                    /\ cells[k] = TableCell(content)
                    /\ elements[k].a = ClassifiedAlign(content)


(* process_block_enhanced on LIST blocks of bullet and ordered lists. *)
MaxListItems == 2
ListStarts == {0, 1, 3}
\* a list of a type with its items; the start 0 stands for no attrs
ListOf(listType, start, items) ==
    IF start = 0 THEN JObj([type |-> W(listType), content |-> JList(items)])
    ELSE JObj([type |-> W(listType), attrs |-> JObj([start |-> JNum(start)]),
               content |-> JList(items)])
ListItemOf(content) == JObj([type |-> W("listItem"), content |-> JList(content)])
ItemKinds == {"text", "blank", "ordered", "bullet"}
ItemOf(kind) ==
    CASE kind = "text"    -> ListItemOf(<< ParagraphOf(<<"a">>) >>)
      [] kind = "blank"   -> ListItemOf(<< ParagraphOf(<<" ">>) >>)
      [] kind = "ordered" -> ListItemOf(<< ParagraphOf(<<"b">>),
                                           ListOf("orderedList", 4, << ListItemOf(<< ParagraphOf(<<"c">>) >>) >>) >>)
      [] OTHER            -> ListItemOf(<< ListOf("bulletList", 0, << ListItemOf(<< ParagraphOf(<<"d">>) >>) >>) >>)
ListBlocks ==
    {JObj([type |-> W("LIST"),
           block |-> EditorBlock(JList(<< ListOf(listType, start,
                                                 [k \in 1..Len(kinds) |-> ItemOf(kinds[k])]) >>))]) :
        listType \in {"orderedList", "bulletList"}, start \in ListStarts,
        kinds \in UNION {[1..n -> ItemKinds] : n \in 1..MaxListItems}}

InitList ==
    /\ pc = "start"
    /\ block \in ListBlocks
    /\ mode \in {"display", "copy"}
    /\ IdleClean /\ IdleDoc /\ IdlePayload /\ IdleOutput /\ IdleClassifier /\ IdleOrchestrator
    /\ IdleRedraw /\ IdleNest /\ IdleCalls

NextList == RenderTagged
SpecList == InitList /\ [][NextList]_vars

\* the list of the block
ListIn(b) == b.v["block"].v["editorContentState"].v["content"].v[1]
StartOf(list) == IF HasKey(list, "attrs") THEN list.v["attrs"].v["start"].v ELSE 1
\* the elements that open an ordered list
OrderedElements(toks) == SelectSeq(toks, LAMBDA tok : tok.t = "open" /\ tok.n = "ol")

\* C22: an ordered list is emitted as an ordered list element that begins
\* at the start of its attrs, 1 without attrs, and so is an ordered list
\* inside a list item.
C22_OrderedListKeepsStart ==
    (pc = "rendered" /\ html # << >>) =>
        /\ ListIn(block).v["type"] = W("orderedList") =>
             /\ html[1].t = "open" /\ html[1].n = "ol"
             /\ html[1].x = << StartOf(ListIn(block)) >>
        /\ \A k \in 1..Len(ListIn(block).v["content"].v) :
             ListIn(block).v["content"].v[k] = ItemOf("ordered") =>
                \E i \in 1..Len(html) : html[i].t = "open" /\ html[i].n = "ol" /\ html[i].x = << 4 >>


(* process_drawing_block on shapes with a transform and a rotation. *)
TurnedKinds == {"Rect", "Ellipse", "Text", "Path", "Resistor"}
\* the transforms of the pool: << >> stands for a shape without the key
Transforms == {<< >>, <<"s", "c", "a", "l", "e", "(", "2", ")">>, <<" ", "s", "k", "e", "w", "X", "(", "1", ")">>}
\* the rotations of the pool: -1 stands for a shape without the key
Rotations == {-1, 0, 45, 90}
TurnedBase(kind) ==
    CASE kind = "Rect"    -> ShapeOf("Rect", 2, 1, 4, 2)
      [] kind = "Ellipse" -> ShapeOf("Ellipse", 2, 1, 4, 2)
      [] kind = "Text"    -> ShapeOf("Text", 2, 1, 4, 2)
                             @@ [value |-> JList(<< JObj([text |-> JStr(<<"a">>)]) >>)]
      [] kind = "Path"    -> ShapeOf("Path", 2, 1, 4, 2) @@ [d |-> JStr(<<"M", "0">>)]
      [] OTHER            -> ShapeOf("PythagorasSVG", 2, 1, 4, 2) @@ [SVGShapeName |-> W("Resistor")]
TurnedShape(kind, transform, rotation) ==
    JObj(TurnedBase(kind)
         @@ (IF transform = << >> THEN << >> ELSE [transform |-> JStr(transform)])
         @@ (IF rotation = -1 THEN << >> ELSE [rotation |-> JNum(rotation)]))
\* the shape at the top of the drawing, or inside a turned Group at (3, 5)
TurnedDrawings ==
    {DrawingOf([x |-> JNum(0), y |-> JNum(0), w |-> JNum(40), h |-> JNum(20)],
               << IF inside
                  THEN JObj([type |-> W("Group"), x |-> JNum(3), y |-> JNum(5),
                             rotation |-> JNum(30),
                             shapes |-> JList(<< TurnedShape(kind, transform, rotation) >>)])
                  ELSE TurnedShape(kind, transform, rotation) >>) :
        kind \in TurnedKinds, transform \in Transforms, rotation \in Rotations, inside \in BOOLEAN}

InitTurned ==
    /\ pc = "start"
    /\ block \in TurnedDrawings
    /\ IdleClean /\ IdleDoc /\ IdlePayload /\ IdleOutput /\ IdleClassifier /\ IdleOrchestrator
    /\ IdleMode /\ IdleRedraw /\ IdleNest /\ IdleCalls

NextTurned == RenderDrawing
SpecTurned == InitTurned /\ [][NextTurned]_vars

TopShape(drawing)  == drawing.v["block"].v["shapes"].v[1]
IsInside(drawing)  == TopShape(drawing).v["type"] = W("Group")
LeafOf(drawing)    == IF IsInside(drawing) THEN TopShape(drawing).v["shapes"].v[1]
                      ELSE TopShape(drawing)
\* the elements of the shapes: what follows the defs of the SVG
ShapeElements(toks) ==
    LET last == CHOOSE i \in 1..Len(toks) : toks[i] = Close("defs")
    IN  SelectSeq(SubSeq(toks, last + 1, Len(toks)),
                  LAMBDA tok : tok.t \in {"open", "void"} /\ tok.n # "svg")
RotationOf(shape) == IF HasKey(shape, "rotation") THEN shape.v["rotation"].v ELSE 0
TransformOf(shape) == IF HasKey(shape, "transform") THEN shape.v["transform"].v ELSE << >>

ParenChars == {"(", ")", "x", "2", "/", "_", " "}
\* expressions a symbol of the symbol map, or a fraction, takes parentheses from
ParenSamples ==
    {<<"(", "s", "i", "g", "m", "a">>, <<"(", "(", "s", "i", "g", "m", "a", ")">>,
     <<"(", "(", "i", "n", "f", "t", "y", ")", ")", "(">>,
     <<"(", "(", "x", ")", "/", "2">>, <<"x", "_", "(", "2", ")", "(">>,
     <<"(", "t", "h", "e", "r", "e", "f", "o", "r", "e", ")", ")", "(", "(">>}

InitParens ==
    /\ pc = "start"
    /\ expr \in SeqsUpTo(ParenChars, MaxExprLen) \cup ParenSamples
    /\ cleaned = << >> /\ recleaned = << >>
    /\ IdleDoc /\ IdleBlock /\ IdlePayload /\ IdleOutput /\ IdleClassifier /\ IdleOrchestrator
    /\ IdleMode /\ IdleRedraw /\ IdleNest /\ IdleCalls

NextParens == CleanOnce
SpecParens == InitParens /\ [][NextParens]_vars

\* how many closing parentheses e has more than opening ones
Surplus(e) == Count(e, ")") - Count(e, "(")

\* C24: a non-empty cleaned expression never has more opening than closing
\* parentheses: an expression with k more opening than closing parentheses has
\* got exactly k closing ones more, any other expression none, whatever the
\* later steps of the cleaning do.
C24_ParenthesesClosed ==
    (pc = "cleaned" /\ cleaned # << >>) =>
        /\ Surplus(cleaned) >= 0
        /\ Surplus(cleaned) = IF Surplus(expr) < 0 THEN 0 ELSE Surplus(expr)
\* the expression ((x has been cleaned to ((x))
C24_TwoParenthesesAppended ==
    /\ pc = "cleaned"
    /\ expr = <<"(", "(", "x">>
    /\ cleaned = <<"(", "(", "x", ")", ")">>


(* format_answer_content on a SqnaAnswers payload whose bodyV2 holds a     *)
(* text and no block tree.                                                 *)
AnswerChars == {"{", "}", " ", "a", "1"}
\* texts that json.loads parses, with and without the keys of a block tree,
\* and a serialized tree cut short
AnswerSamples ==
    {<<"{", Quote, "blocks", Quote, ":", " ", "[", "]", "}">>,
     <<"{", Quote, "a", Quote, ":", " ", "1", "}">>,
     <<" ", "{", Quote, "stepByStep", Quote, ":", " ", "{">>,
     <<"{", Quote, "finalAnswer", Quote, ":", " ", "{", Quote, "blocks", Quote, ":", " ", "[">>}
AnswerTexts == SeqsUpTo(AnswerChars, MaxTextLen) \cup AnswerSamples

InitText ==
    /\ pc = "start"
    /\ bodyTree = JNull /\ encoding = "none"
    /\ questionDataObj \in {SqnaPayload(JObj([text |-> JStr(chars)])) : chars \in AnswerTexts}
    /\ formatted = JNull
    /\ IdleClean /\ IdleDoc /\ IdleBlock /\ IdleOutput /\ IdleClassifier /\ IdleOrchestrator
    /\ IdleMode /\ IdleRedraw /\ IdleNest /\ IdleCalls

NextText == Format
SpecText == InitText /\ [][NextText]_vars

\* the text of the bodyV2 of the payload
AnswerText ==
    questionDataObj.v["displayAnswers"].v["sqnaAnswers"].v["answerData"].v[1].v["bodyV2"].v["text"].v
LooksSerialized(chars) == Strip(chars) # << >> /\ Head(Strip(chars)) = "{"
\* the blocks of the normalized document that carry the text chars
BlocksCarrying(chars) ==
    SelectSeq(formatted.v["blocks"].v,
              LAMBDA b : /\ b.v["type"] = W("TEXT")
                         /\ b.v["content"] = JStr(chars)
                         /\ FirstText(b.v["block"].v["editorContentState"]) = JStr(chars))

\* C25: for a text that looks like a serialized block tree and that
\* json.loads cannot parse, format_answer_content returns the structured
\* document with exactly one block, a TEXT block with the text as it was, and
\* with stepByStep and finalAnswer as empty containers.
C25_UnparsedTextKept ==
    (pc = "formatted" /\ LooksSerialized(AnswerText) /\ IsRaise(Loads(AnswerText))) =>
        /\ formatted # Minimal
        /\ Len(formatted.v["blocks"].v) = 1
        /\ BlocksCarrying(AnswerText) = formatted.v["blocks"].v
        /\ formatted.v["text"] = JStr(AnswerText)
        /\ formatted.v["stepByStep"] = NoSteps
        /\ formatted.v["finalAnswer"] = NoFinal
\* a serialized tree cut short inside its final answer has been normalized
C25_CutTreeNormalized ==
    /\ pc = "formatted"
    /\ AnswerText = <<"{", Quote, "finalAnswer", Quote, ":", " ", "{", Quote, "blocks", Quote, ":", " ", "[">>
    /\ Len(formatted.v["blocks"].v) = 1
    /\ formatted.v["finalAnswer"] = NoFinal

\* C30: for a non-blank text, whether it starts with "{" or not,
\* format_answer_content returns at least one block carrying the text.
C30_TextNotLost ==
    (pc = "formatted" /\ Strip(AnswerText) # << >>) => BlocksCarrying(AnswerText) # << >>


(* _convert_answer_to_clean_text on one math run in a paragraph, a heading *)
(* or a table cell.                                                        *)
RunPlaces == {"paragraph", "heading", "cell"}
RunChars == {"x", "/", "_", "1"}
RunTexts == SeqsUpTo(RunChars, MaxTextLen) \ {<< >>}
HeadingOf(chars) ==
    JObj([type |-> W("heading"), attrs |-> JObj([level |-> JNum(2)]),
          content |-> JList(<< JObj([type |-> W("text"), text |-> JStr(chars)]) >>)])
RunBlock(place, chars) ==
    CASE place = "paragraph" -> TextBlock(chars)
      [] place = "heading"   -> JObj([type |-> W("TEXT"),
                                      block |-> EditorBlock(JList(<< HeadingOf(chars) >>))])
      [] OTHER               -> TableBlock(1, 1, (<<0, 0>> :> TableCell(chars)), << >>, << >>)
RunContents ==
    {JObj([blocks |-> JList(<< RunBlock(place, chars) >>)]) : place \in RunPlaces, chars \in RunTexts}

InitRun ==
    /\ pc = "start"
    /\ contentObj \in RunContents
    /\ IdleClassifier /\ IdleClean /\ IdleDoc /\ IdleBlock /\ IdlePayload /\ IdleOutput
    /\ IdleMode /\ IdleRedraw /\ IdleNest /\ IdleCalls

NextRun == RenderContent \/ ExportContent
SpecRun == InitRun /\ [][NextRun]_vars

\* the place and the text of the run of a content object of RunContents
RunPlace(content) ==
    CHOOSE place \in RunPlaces : \E chars \in RunTexts :
        content = JObj([blocks |-> JList(<< RunBlock(place, chars) >>)])
RunText(content) ==
    CHOOSE chars \in RunTexts : \E place \in RunPlaces :
        content = JObj([blocks |-> JList(<< RunBlock(place, chars) >>)])
\* the exported lines as one string
Exported(lines) == FlatMap(LAMBDA line : line.s, lines)

\* C26: in the exported text a run classified display stands between $$ and
\* $$, and a run classified inline between $ and $ and not between $$, in a
\* paragraph, in a heading and in a table cell.
C26_WrappedByClassification ==
    (pc = "exported" /\ CleanMathExpression(RunText(contentObj)) # << >>) =>
        LET chars == RunText(contentObj)
            class == IsMathematicalExpression(chars)
        IN  /\ class = "display" =>
                 Contains(Exported(text), Dollars(CleanMathExpression(chars), 2))
            /\ class = "inline" =>
                 /\ Contains(Exported(text), Dollars(CleanMathExpression(chars), 1))
                 /\ ~Contains(Exported(text), <<"$", "$">>)


(* process_drawing_block on two schematic symbols of the same size. *)
SymbolNames == SymbolsGe \cup SymbolsGt
SymbolSides == {2, 4, 6}
SizedSymbol(name, x, w, h) == JObj(ShapeOf("PythagorasSVG", x, 1, w, h) @@ [SVGShapeName |-> name])
SymbolPairs ==
    {DrawingOf([x |-> JNum(0), y |-> JNum(0), w |-> JNum(40), h |-> JNum(20)],
               << SizedSymbol(first, 1, w, h), SizedSymbol(second, 11, w, h) >>) :
        first \in SymbolNames, second \in SymbolNames, w \in SymbolSides, h \in SymbolSides}

InitSymbols ==
    /\ pc = "start"
    /\ block \in SymbolPairs
    /\ IdleClean /\ IdleDoc /\ IdlePayload /\ IdleOutput /\ IdleClassifier /\ IdleOrchestrator
    /\ IdleMode /\ IdleRedraw /\ IdleNest /\ IdleCalls

NextSymbols == RenderDrawing
SpecSymbols == InitSymbols /\ [][NextSymbols]_vars

\* the paths drawn for the symbols: each carries the name and the orientation
SymbolPaths(toks) ==
    SelectSeq(toks, LAMBDA tok : tok.t = "void" /\ tok.n = "path"
                                 /\ \E name \in SymbolNames : tok.s = name.v)

\* C27: two named schematic symbols of the same width and height, equal ones
\* included, are drawn with the same orientation.
C27_SameOrientation ==
    pc = "drawn" =>
        /\ Len(SymbolPaths(html)) = 2
        /\ SymbolPaths(html)[1].a = SymbolPaths(html)[2].a


\* the steps of a content object some block of which renders non-empty
ShownSteps(c) ==
    {i \in 1..Len(StepsOf(c)) :
        \E j \in 1..Len(StepBlocksOf(c, i)) :
            ~Blank(ProcessBlockEnhanced(StepBlocksOf(c, i)[j], "display"))}
\* the steps whose mark is among the texts
MarkedSteps(c, texts, StepMark(_)) ==
    {i \in 1..Len(StepsOf(c)) : \E k \in 1..Len(texts) : texts[k] = StepMark(i)}

\* C28: the HTML and the text of a content object have a step header for the
\* same steps, those with a block that renders non-empty, and both number a
\* step by its position in the steps list, counted from 1.
C28_SameStepHeaders ==
    pc = "exported" =>
        /\ MarkedSteps(contentObj, TextsOf(html),
                       LAMBDA i : HtmlStepMark(i, Len(StepsOf(contentObj)))) = ShownSteps(contentObj)
        /\ MarkedSteps(contentObj, TextsOf(text), TextStepMark) = ShownSteps(contentObj)


(* process_block_enhanced on lists, explanation blocks and tables. *)
ExplanationBlocks ==
    {LabelledBlock("Explanation", chars) : chars \in {<<"a">>, <<"a", "<", "b">>, <<"x", "^", "2">>}}
FragmentBlocks == ListBlocks \cup ExplanationBlocks \cup TableBlocks \cup AlignTables

InitFragments ==
    /\ pc = "start"
    /\ block \in FragmentBlocks
    /\ mode \in {"display", "copy"}
    /\ IdleClean /\ IdleDoc /\ IdlePayload /\ IdleOutput /\ IdleClassifier /\ IdleOrchestrator
    /\ IdleRedraw /\ IdleNest /\ IdleCalls

NextFragments == RenderTagged
SpecFragments == InitFragments /\ [][NextFragments]_vars

\* C29: in a non-empty HTML fragment of a bullet list, an ordered list, an
\* explanation block or a table every element that is opened is closed by a
\* closing tag of its own name, innermost first.
C29_FragmentBalanced == (pc = "rendered" /\ html # << >>) => Balanced(html)

=============================================================================
